---- MODULE Spec2Model ----
(***************************************************************************)
(* Model of backend/main.py of AI_Powered_Content_and_Image_Explorer: the  *)
(* MCP tool-session adapter (search_with_mcp, generate_image_with_mcp),    *)
(* its response normalisation and the mock fallback services.              *)
(*                                                                         *)
(* Python values are modelled as tagged records (PyVal): None, bool, int,  *)
(* str, list and dict.  Texts are TLA+ strings, read character by          *)
(* character with SubSeq, so json.loads is a parser and str() a formatter. *)
(***************************************************************************)
EXTENDS Integers, Sequences, FiniteSets, TLC

(***************************************************************************)
(* Bounds of the model.                                                    *)
(***************************************************************************)
\* largest max_results a request of the model asks for (the code allows 1..50)
MaxResultsTried == 3
\* longest tools list a provider advertises in the model
MaxTools == 2
\* longest multi-item content list of an envelope in the model
MaxItems == 2
\* hash(prompt) % 1000 takes a value in 0..999; the model tries 0..MaxHash
MaxHash == 1

\* SearchRequest.max_results: Field(10, ge=1, le=50)
MaxResultsLimit == 50
\* hash(prompt) % 1000
HashModulus == 1000
\* kwargs.get('width', 512), kwargs.get('height', 512)
DefaultDim == 512

(***************************************************************************)
(* Strings.                                                                *)
(***************************************************************************)
Min(a, b) == IF a <= b THEN a ELSE b

\* s[i] as a one-character string; "" past the end
Ch(s, i) == IF i >= 1 /\ i <= Len(s) THEN SubSeq(s, i, i) ELSE ""

\* str.startswith
StartsWith(s, p) == Len(p) <= Len(s) /\ SubSeq(s, 1, Len(p)) = p

\* the `in` operator on two strings: p occurs in s
Contains(s, p) ==
    \E i \in 1..(Len(s) - Len(p) + 1) : SubSeq(s, i, i + Len(p) - 1) = p

LowerCh(c) ==
    CASE c = "A" -> "a" [] c = "B" -> "b" [] c = "C" -> "c" [] c = "D" -> "d"
      [] c = "E" -> "e" [] c = "F" -> "f" [] c = "G" -> "g" [] c = "H" -> "h"
      [] c = "I" -> "i" [] c = "J" -> "j" [] c = "K" -> "k" [] c = "L" -> "l"
      [] c = "M" -> "m" [] c = "N" -> "n" [] c = "O" -> "o" [] c = "P" -> "p"
      [] c = "Q" -> "q" [] c = "R" -> "r" [] c = "S" -> "s" [] c = "T" -> "t"
      [] c = "U" -> "u" [] c = "V" -> "v" [] c = "W" -> "w" [] c = "X" -> "x"
      [] c = "Y" -> "y" [] c = "Z" -> "z" [] OTHER -> c

RECURSIVE LowerFrom(_, _)
LowerFrom(s, i) ==
    IF i > Len(s) THEN "" ELSE LowerCh(Ch(s, i)) \o LowerFrom(s, i + 1)

\* str.lower
Lower(s) == LowerFrom(s, 1)

IsSpace(c) == c \in {" ", "\t", "\n", "\r"}

RECURSIVE LStripPos(_, _)
LStripPos(s, i) ==
    IF i <= Len(s) /\ IsSpace(Ch(s, i)) THEN LStripPos(s, i + 1) ELSE i

RECURSIVE RStripPos(_, _)
RStripPos(s, j) ==
    IF j >= 1 /\ IsSpace(Ch(s, j)) THEN RStripPos(s, j - 1) ELSE j

\* str.strip
Strip(s) ==
    LET i == LStripPos(s, 1)
        j == RStripPos(s, Len(s))
    IN  IF i > j THEN "" ELSE SubSeq(s, i, j)

DigitCh(d) ==
    CASE d = 0 -> "0" [] d = 1 -> "1" [] d = 2 -> "2" [] d = 3 -> "3"
      [] d = 4 -> "4" [] d = 5 -> "5" [] d = 6 -> "6" [] d = 7 -> "7"
      [] d = 8 -> "8" [] OTHER -> "9"

IsDigit(c) == c \in {"0", "1", "2", "3", "4", "5", "6", "7", "8", "9"}

DigitVal(c) ==
    CASE c = "0" -> 0 [] c = "1" -> 1 [] c = "2" -> 2 [] c = "3" -> 3
      [] c = "4" -> 4 [] c = "5" -> 5 [] c = "6" -> 6 [] c = "7" -> 7
      [] c = "8" -> 8 [] OTHER -> 9

RECURSIVE NatStr(_)
NatStr(n) ==
    IF n < 10 THEN DigitCh(n) ELSE NatStr(n \div 10) \o DigitCh(n % 10)

\* str(n) of an int
IntStr(n) == IF n < 0 THEN "-" \o NatStr(0 - n) ELSE NatStr(n)

(***************************************************************************)
(* Python values.  Every value is a record of the same five fields, so     *)
(* that values of different Python types can be compared.                  *)
(***************************************************************************)
PyNone == [t |-> "none", s |-> "", n |-> 0, xs |-> <<>>, ks |-> <<>>]
PyBool(b) == [t |-> "bool", s |-> "", n |-> IF b THEN 1 ELSE 0, xs |-> <<>>, ks |-> <<>>]
PyInt(i) == [t |-> "int", s |-> "", n |-> i, xs |-> <<>>, ks |-> <<>>]
PyStr(x) == [t |-> "str", s |-> x, n |-> 0, xs |-> <<>>, ks |-> <<>>]
PyList(items) == [t |-> "list", s |-> "", n |-> 0, xs |-> items, ks |-> <<>>]
PyDict(keys, vals) == [t |-> "dict", s |-> "", n |-> 0, xs |-> vals, ks |-> keys]

\* bool(v): None, False, 0, "", [] and {} are false
Truthy(v) ==
    CASE v.t = "none" -> FALSE
      [] v.t = "bool" -> v.n = 1
      [] v.t = "int" -> v.n # 0
      [] v.t = "str" -> v.s # ""
      [] OTHER -> Len(v.xs) > 0

\* a or b
PyOr(a, b) == IF Truthy(a) THEN a ELSE b

HasKey(d, k) == \E i \in 1..Len(d.ks) : d.ks[i] = k

KeyIndex(d, k) == CHOOSE i \in 1..Len(d.ks) : d.ks[i] = k

\* dict.get(k): None when the key is missing
DictGet(d, k) == IF HasKey(d, k) THEN d.xs[KeyIndex(d, k)] ELSE PyNone

\* d[k] = v on the pair of sequences (keys, values): a repeated key keeps its
\* place and takes the last value
DictPut(d, k, v) ==
    IF HasKey(d, k)
    THEN PyDict(d.ks, [d.xs EXCEPT ![KeyIndex(d, k)] = v])
    ELSE PyDict(Append(d.ks, k), Append(d.xs, v))

(***************************************************************************)
(* repr() and str() of a Python value.                                     *)
(***************************************************************************)
ReprCh(c, q) ==
    CASE c = "\\" -> "\\\\"
      [] c = "\n" -> "\\n"
      [] c = "\r" -> "\\r"
      [] c = "\t" -> "\\t"
      [] c = q -> "\\" \o q
      [] OTHER -> c

RECURSIVE ReprChars(_, _, _)
ReprChars(x, i, q) ==
    IF i > Len(x) THEN "" ELSE ReprCh(Ch(x, i), q) \o ReprChars(x, i + 1, q)

\* repr of a str: single quotes, unless it holds ' and no "
ReprStr(x) ==
    LET q == IF Contains(x, "'") /\ ~Contains(x, "\"") THEN "\"" ELSE "'"
    IN  q \o ReprChars(x, 1, q) \o q

RECURSIVE repr(_)
RECURSIVE ReprItems(_, _)
RECURSIVE ReprPairs(_, _)
repr(v) ==
    CASE v.t = "none" -> "None"
      [] v.t = "bool" -> (IF v.n = 1 THEN "True" ELSE "False")
      [] v.t = "int" -> IntStr(v.n)
      [] v.t = "str" -> ReprStr(v.s)
      [] v.t = "list" -> "[" \o ReprItems(v, 1) \o "]"
      [] OTHER -> "{" \o ReprPairs(v, 1) \o "}"

ReprItems(v, i) ==
    IF i > Len(v.xs) THEN ""
    ELSE (IF i > 1 THEN ", " ELSE "") \o repr(v.xs[i]) \o ReprItems(v, i + 1)

ReprPairs(v, i) ==
    IF i > Len(v.xs) THEN ""
    ELSE (IF i > 1 THEN ", " ELSE "") \o ReprStr(v.ks[i]) \o ": "
             \o repr(v.xs[i]) \o ReprPairs(v, i + 1)

\* str(v): a str is itself, any other value its repr
str(v) == IF v.t = "str" THEN v.s ELSE repr(v)

(***************************************************************************)
(* json.loads.  The decoder of the JSON grammar the model's texts use:     *)
(* null, true, false, integers, strings with the escapes \" \\ \/ \f \n   *)
(* \r \t, arrays and objects, with whitespace between tokens.  Floats,     *)
(* \b and \u escapes, NaN and Infinity do not occur in the model's texts. *)
(* A scan returns [ok, v, p]: whether it succeeded, the value, and the     *)
(* position after it.                                                      *)
(***************************************************************************)
ScanFail == [ok |-> FALSE, v |-> PyNone, p |-> 0]

ScanOk(val, pos) == [ok |-> TRUE, v |-> val, p |-> pos]

\* WHITESPACE.match(s, i).end()
SkipWs(s, i) == LStripPos(s, i)

ScanLiteral(s, i, word, val) ==
    IF i + Len(word) - 1 <= Len(s) /\ SubSeq(s, i, i + Len(word) - 1) = word
    THEN ScanOk(val, i + Len(word))
    ELSE ScanFail

RECURSIVE ScanDigits(_, _, _)
ScanDigits(s, i, acc) ==
    IF IsDigit(Ch(s, i))
    THEN ScanDigits(s, i + 1, acc * 10 + DigitVal(Ch(s, i)))
    ELSE ScanOk(PyInt(acc), i)

\* (0|[1-9]\d*) at position j
ScanNatural(s, j) ==
    IF Ch(s, j) = "0" THEN ScanOk(PyInt(0), j + 1)
    ELSE IF IsDigit(Ch(s, j)) THEN ScanDigits(s, j, 0)
    ELSE ScanFail

Negated(r) == IF r.ok THEN ScanOk(PyInt(0 - r.v.n), r.p) ELSE r

\* NUMBER_RE: -?(0|[1-9]\d*)
ScanNumber(s, i) ==
    IF Ch(s, i) = "-" THEN Negated(ScanNatural(s, i + 1)) ELSE ScanNatural(s, i)

Unescape(c) ==
    CASE c = "n" -> "\n" [] c = "r" -> "\r" [] c = "t" -> "\t"
      [] c = "f" -> "\f" [] OTHER -> c

\* py_scanstring, strict: i is the position after the opening quote, c = s[i]
RECURSIVE ScanString(_, _, _)
ScanChar(s, i, acc, c) ==
    CASE c = "" -> ScanFail
      [] c = "\"" -> ScanOk(PyStr(acc), i + 1)
      [] c = "\\" ->
           (IF Ch(s, i + 1) \in {"\"", "\\", "/", "f", "n", "r", "t"}
            THEN ScanString(s, i + 2, acc \o Unescape(Ch(s, i + 1)))
            ELSE ScanFail)
      [] c \in {"\n", "\r", "\t", "\f"} -> ScanFail
      [] OTHER -> ScanString(s, i + 1, acc \o c)

ScanString(s, i, acc) == ScanChar(s, i, acc, Ch(s, i))

RECURSIVE ScanValue(_, _)
RECURSIVE ScanElems(_, _, _)
RECURSIVE ScanMembers(_, _, _)
\* JSONObject after "{" and whitespace, at position j
ScanObject(s, j) ==
    IF Ch(s, j) = "}" THEN ScanOk(PyDict(<<>>, <<>>), j + 1)
    ELSE ScanMembers(s, j, PyDict(<<>>, <<>>))

\* JSONArray after "[" and whitespace, at position j
ScanArray(s, j) ==
    IF Ch(s, j) = "]" THEN ScanOk(PyList(<<>>), j + 1) ELSE ScanElems(s, j, <<>>)

\* scan_once at position i, c = s[i]
ScanOnce(s, i, c) ==
    CASE c = "\"" -> ScanString(s, i + 1, "")
      [] c = "{" -> ScanObject(s, SkipWs(s, i + 1))
      [] c = "[" -> ScanArray(s, SkipWs(s, i + 1))
      [] c = "n" -> ScanLiteral(s, i, "null", PyNone)
      [] c = "t" -> ScanLiteral(s, i, "true", PyBool(TRUE))
      [] c = "f" -> ScanLiteral(s, i, "false", PyBool(FALSE))
      [] OTHER -> ScanNumber(s, i)

ScanValue(s, i) == ScanOnce(s, i, Ch(s, i))

\* after the elements acc: "]" ends the array, "," announces the next element
ArrayNext(s, acc, j, c) ==
    CASE c = "]" -> ScanOk(PyList(acc), j + 1)
      [] c = "," -> ScanElems(s, SkipWs(s, j + 1), acc)
      [] OTHER -> ScanFail

\* r is the scan of an element
ArrayElem(s, acc, r) ==
    IF ~r.ok THEN ScanFail
    ELSE ArrayNext(s, Append(acc, r.v), SkipWs(s, r.p), Ch(s, SkipWs(s, r.p)))

\* JSONArray: i is at the start of an element
ScanElems(s, i, acc) == ArrayElem(s, acc, ScanValue(s, i))

\* after the members d: "}" ends the object, "," announces the next member
ObjectNext(s, d, m, c) ==
    CASE c = "}" -> ScanOk(d, m + 1)
      [] c = "," -> ScanMembers(s, SkipWs(s, m + 1), d)
      [] OTHER -> ScanFail

\* r is the scan of the value of key
ObjectValue(s, acc, key, r) ==
    IF ~r.ok THEN ScanFail
    ELSE ObjectNext(s, DictPut(acc, key, r.v), SkipWs(s, r.p), Ch(s, SkipWs(s, r.p)))

\* j is the position after the key and whitespace, where ":" is expected
ObjectColon(s, acc, key, j) ==
    IF Ch(s, j) # ":" THEN ScanFail
    ELSE ObjectValue(s, acc, key, ScanValue(s, SkipWs(s, j + 1)))

\* k is the scan of a key
ObjectKey(s, acc, k) ==
    IF ~k.ok THEN ScanFail ELSE ObjectColon(s, acc, k.v.s, SkipWs(s, k.p))

\* JSONObject: i is where the quote of a key is expected
ScanMembers(s, i, acc) ==
    IF Ch(s, i) # "\"" THEN ScanFail ELSE ObjectKey(s, acc, ScanString(s, i + 1, ""))

\* the value must be followed by whitespace only
WholeText(text, r) ==
    IF r.ok /\ SkipWs(text, r.p) = Len(text) + 1 THEN r ELSE ScanFail

\* json.loads(text) of a str: ok = FALSE stands for json.JSONDecodeError
json_loads(text) == WholeText(text, ScanValue(text, SkipWs(text, 1)))

(***************************************************************************)
(* Exceptions: [type, msg], msg being str(e).  NoExc stands for "nothing   *)
(* raised".                                                                *)
(***************************************************************************)
NoExc == [type |-> "", msg |-> ""]

Exc(type, msg) == [type |-> type, msg |-> msg]

\* classes that derive from BaseException but not from Exception
BaseExceptionOnly == {"CancelledError", "KeyboardInterrupt", "SystemExit", "GeneratorExit"}

\* a handler that catches only the connection failure of the transport
CatchesConnectOnly(type) == type = "ConnectError"

\* `except Exception as e`: whether the clause catches an exception of this class
CatchesException(type) == type \notin BaseExceptionOnly

\* streamablehttp_client is unbound when the import at the top of main.py failed
NameErrorClient == Exc("NameError", "name 'streamablehttp_client' is not defined")

\* json.loads of a text attribute that is no str (None)
TypeErrorLoads ==
    Exc("TypeError", "the JSON object must be str, bytes or bytearray, not NoneType")

PyTypeName(v) ==
    CASE v.t = "none" -> "NoneType" [] v.t = "bool" -> "bool" [] v.t = "int" -> "int"
      [] v.t = "str" -> "str" [] v.t = "list" -> "list" [] OTHER -> "dict"

\* v.get(...) of a value that is no dict
AttributeErrorGet(v) ==
    Exc("AttributeError", "'" \o PyTypeName(v) \o "' object has no attribute 'get'")

\* what the provider's side can raise at session open, initialize, list_tools and call_tool
ProviderFailures ==
    { Exc("ConnectError", "All connection attempts failed"),
      Exc("McpError", "Method not found"),
      Exc("ExceptionGroup", "unhandled errors in a TaskGroup (1 sub-exception)") }

(***************************************************************************)
(* The raw envelope call_tool returns (RawResult) and its content items.   *)
(* An item is an object that may have a text attribute (a str, or None);   *)
(* repr is str(item).  An envelope has: truthy = bool(result), repr =      *)
(* str(result) and ckind, the shape of result.content:                     *)
(*   "absent" no content attribute, "none" None, "list" a list of items    *)
(*   (items), "item" one item (items[1]), "str" a str (s), "other" an int  *)
(*   (n).                                                                  *)
(***************************************************************************)
TextItem(x) == [hasText |-> TRUE, textIsStr |-> TRUE, text |-> x, repr |-> "type='text'"]

NoneTextItem == [hasText |-> TRUE, textIsStr |-> FALSE, text |-> "", repr |-> "type='text'"]

OpaqueItem == [hasText |-> FALSE, textIsStr |-> FALSE, text |-> "", repr |-> "type='image'"]

Envelope(kind, items, x, i) ==
    [truthy |-> TRUE, repr |-> "isError=False", ckind |-> kind, items |-> items,
     s |-> x, n |-> i]

\* call_tool returned None
NoneResult ==
    [truthy |-> FALSE, repr |-> "None", ckind |-> "absent", items |-> <<>>,
     s |-> "", n |-> 0]

\* hasattr(result, 'content')
HasContent(result) == result.ckind # "absent"

\* bool(result.content)
ContentTruthy(result) ==
    CASE result.ckind = "list" -> Len(result.items) > 0
      [] result.ckind = "item" -> TRUE
      [] result.ckind = "str" -> result.s # ""
      [] result.ckind = "other" -> result.n # 0
      [] OTHER -> FALSE

\* str(result.content) of content that is neither list, item nor str
ContentStr(result) == IF result.ckind = "other" THEN IntStr(result.n) ELSE "None"

(***************************************************************************)
(* search_with_mcp: normalisation of the envelope (lines 376-487).         *)
(* A normalisation returns [exc, val]: the exception it raised (NoExc if   *)
(* none) and the value.                                                    *)
(***************************************************************************)
Returns(val) == [exc |-> NoExc, val |-> val]

Raises(e) == [exc |-> e, val |-> <<>>]

\* the record every non-mapping is wrapped in
SearchTemplate(query, content) ==
    PyDict(<<"title", "content", "source">>,
           <<PyStr("Search result for '" \o query \o "'"), PyStr(content),
             PyStr("DuckDuckGo")>>)

\* a decoding that keeps the raw text of a scalar instead of str(parsed_data)
DecodedResultsRawScalar(r, text, query) ==
    IF ~r.ok THEN <<SearchTemplate(query, text)>>
    ELSE IF r.v.t = "dict" THEN <<r.v>>
    ELSE IF r.v.t = "list" THEN r.v.xs
    ELSE <<SearchTemplate(query, text)>>

\* the records a decoded text stands for: r = json.loads(text), not ok when
\* JSONDecodeError was raised (lines 385-404, 415-433, 437-454)
DecodedResults(r, text, query) ==
    IF ~r.ok THEN <<SearchTemplate(query, text)>>
    ELSE IF r.v.t = "dict" THEN <<r.v>>
    ELSE IF r.v.t = "list" THEN r.v.xs
    ELSE <<SearchTemplate(query, str(r.v))>>

\* an object that has a text attribute
TextResults(item, query) ==
    IF ~item.textIsStr THEN Raises(TypeErrorLoads)
    ELSE Returns(DecodedResults(json_loads(item.text), item.text, query))

\* one pass of `for content_item in result.content` (lines 383-411)
ItemResults(item, query) ==
    IF item.hasText THEN TextResults(item, query)
    ELSE Returns(<<SearchTemplate(query, item.repr)>>)

\* the loop over result.content from item i on; one is what item i gave
RECURSIVE ListContentResults(_, _, _, _)
ListContentStep(items, i, query, acc, one) ==
    IF one.exc # NoExc THEN one
    ELSE ListContentResults(items, i + 1, query, acc \o one.val)

ListContentResults(items, i, query, acc) ==
    IF i > Len(items) THEN Returns(acc)
    ELSE ListContentStep(items, i, query, acc, ItemResults(items[i], query))

\* search_results for truthy content (lines 381-462)
SearchResults(result, query) ==
    CASE result.ckind = "list" -> ListContentResults(result.items, 1, query, <<>>)
      [] result.ckind = "item" /\ result.items[1].hasText ->
           TextResults(result.items[1], query)
      [] result.ckind = "str" ->
           Returns(DecodedResults(json_loads(result.s), result.s, query))
      [] result.ckind = "item" -> Returns(<<SearchTemplate(query, result.items[1].repr)>>)
      [] OTHER -> Returns(<<SearchTemplate(query, ContentStr(result))>>)

\* search_results[:max_results] without the bound
SliceAll(xs, m) == xs

\* search_results[:max_results], max_results >= 1
Slice(xs, m) == SubSeq(xs, 1, Min(m, Len(xs)))

\* an item of the final loop appended as it is
CoerceNothing(item, query) == item

\* the body of the final loop: a dict is kept, anything else is wrapped
Coerce(item, query) ==
    IF item.t = "dict" THEN item ELSE SearchTemplate(query, str(item))

NoResultsFound(query) ==
    PyDict(<<"title", "content", "source">>,
           <<PyStr("No results found for '" \o query \o "'"),
             PyStr("No search results available"), PyStr("DuckDuckGo")>>)

\* the final loop over the cut list
CoerceAll(cut, query) == [i \in 1..Len(cut) |-> Coerce(cut[i], query)]

OrNoResults(final_results, query) ==
    IF Len(final_results) > 0 THEN final_results ELSE <<NoResultsFound(query)>>

\* lines 464-480
FinalResults(search_results, query, max_results) ==
    OrNoResults(CoerceAll(Slice(search_results, max_results), query), query)

\* a sentinel whose content is the fixed text whatever the envelope is
SearchCompletedFixed(result, query) ==
    PyDict(<<"title", "content", "source">>,
           <<PyStr("Search completed for '" \o query \o "'"),
             PyStr("No results available"), PyStr("DuckDuckGo")>>)

\* lines 482-487
SearchCompleted(result, query) ==
    PyDict(<<"title", "content", "source">>,
           <<PyStr("Search completed for '" \o query \o "'"),
             PyStr(IF result.truthy THEN result.repr ELSE "No results available"),
             PyStr("DuckDuckGo")>>)

\* a test of the content that takes any content that is not None for content
ContentNotNone(result) == HasContent(result) /\ result.ckind # "none"

\* `hasattr(result, 'content') and result.content`
ContentPresent(result) == HasContent(result) /\ ContentTruthy(result)

\* r is search_results, or the exception raised while building it
Finalized(r, query, max_results) ==
    IF r.exc # NoExc THEN r ELSE Returns(FinalResults(r.val, query, max_results))

\* lines 376-487: the value search_with_mcp returns for an envelope, or the
\* exception raised on the way
NormalizeSearch(result, query, max_results) ==
    IF ContentPresent(result)
    THEN Finalized(SearchResults(result, query), query, max_results)
    ELSE Returns(<<SearchCompleted(result, query)>>)

ErrorDict(msg) == PyDict(<<"error">>, <<PyStr(msg)>>)

\* a search that answers a missing tool with no record at all
SearchToolNotFoundEmpty == <<>>

\* line 369
SearchToolNotFound == <<ErrorDict("Search service temporarily unavailable")>>

\* lines 489-491
SearchExcept(e) == <<ErrorDict("Search service unavailable: " \o e.msg)>>

(***************************************************************************)
(* generate_image_with_mcp: normalisation of the envelope (lines 530-573). *)
(***************************************************************************)
\* the canonical image record of lines 568-573
ImageRecord(image_data, image_url, prompt) ==
    PyDict(<<"image_data", "image_url", "status", "prompt_used">>,
           <<image_data, image_url, PyStr("success"), PyStr(prompt)>>)

\* an extraction that does not know the key url
ImageUrlNoUrlKey(parsed_data) ==
    PyOr(DictGet(parsed_data, "imageUrl"), DictGet(parsed_data, "image_url"))

\* line 547
ImageUrlOf(parsed_data) ==
    PyOr(PyOr(DictGet(parsed_data, "imageUrl"), DictGet(parsed_data, "image_url")),
         DictGet(parsed_data, "url"))

\* an extraction that does not know the key base64
ImageDataNoBase64(parsed_data) ==
    PyOr(PyOr(DictGet(parsed_data, "imageData"), DictGet(parsed_data, "image_data")),
         DictGet(parsed_data, "data"))

\* line 548
ImageDataOf(parsed_data) ==
    PyOr(PyOr(PyOr(DictGet(parsed_data, "imageData"), DictGet(parsed_data, "image_data")),
              DictGet(parsed_data, "data")),
         DictGet(parsed_data, "base64"))

\* a reading of the raw text that knows URLs only
RawTextFieldsUrlOnly(text_content, prompt) ==
    IF StartsWith(text_content, "http")
    THEN ImageRecord(PyNone, PyStr(text_content), prompt)
    ELSE ImageRecord(PyNone, PyNone, prompt)

\* lines 556-560: the stripped text that is no JSON, read as a URL or as inline data
RawTextFields(text_content, prompt) ==
    IF StartsWith(text_content, "http")
    THEN ImageRecord(PyNone, PyStr(text_content), prompt)
    ELSE IF StartsWith(text_content, "data:image/")
    THEN ImageRecord(PyStr(text_content), PyNone, prompt)
    ELSE ImageRecord(PyNone, PyNone, prompt)

\* lines 540-560: r = json.loads(text), not ok when JSONDecodeError was raised
ImageFields(r, text, prompt) ==
    IF ~r.ok THEN [exc |-> NoExc, val |-> RawTextFields(Strip(text), prompt)]
    ELSE IF r.v.t # "dict" THEN [exc |-> AttributeErrorGet(r.v), val |-> PyNone]
    ELSE [exc |-> NoExc, val |-> ImageRecord(ImageDataOf(r.v), ImageUrlOf(r.v), prompt)]

\* lines 539-560: the first content item has a text attribute
FirstItemFields(text_obj, prompt) ==
    IF ~text_obj.textIsStr THEN [exc |-> TypeErrorLoads, val |-> PyNone]
    ELSE ImageFields(json_loads(text_obj.text), text_obj.text, prompt)

\* lines 530-573: the value generate_image_with_mcp returns for an envelope, or
\* the exception raised on the way
NormalizeImage(result, prompt) ==
    IF ContentPresent(result) /\ result.ckind = "list" /\ result.items[1].hasText
    THEN FirstItemFields(result.items[1], prompt)
    ELSE [exc |-> NoExc, val |-> ImageRecord(PyNone, PyNone, prompt)]

\* a not-found answer with the message of the search function
ImageToolNotFoundCopied == ErrorDict("Search service temporarily unavailable")

\* line 515
ImageToolNotFound == ErrorDict("Image generation service temporarily unavailable")

\* a handler that reports the failure in a status field
ImageExceptWithStatus(e) ==
    PyDict(<<"status", "message">>,
           <<PyStr("error"), PyStr("Image generation service unavailable: " \o e.msg)>>)

\* lines 575-577
ImageExcept(e) == ErrorDict("Image generation service unavailable: " \o e.msg)

(***************************************************************************)
(* Tool selection (lines 363-366 and 508-512).                             *)
(***************************************************************************)
\* next(...) found nothing: None
NotFound == ""

SearchKeywords == <<"search">>

ImageKeywords == <<"generate", "image", "flux">>

\* any(keyword in tool.name.lower() for keyword in keywords)
Matches(name, keywords) ==
    \E k \in 1..Len(keywords) : Contains(Lower(name), keywords[k])

\* next((tool for tool in tools if ...), None), from position i on
RECURSIVE SelectFrom(_, _, _)
SelectFrom(tools, i, keywords) ==
    IF i > Len(tools) THEN NotFound
    ELSE IF Matches(tools[i], keywords) THEN tools[i]
    ELSE SelectFrom(tools, i + 1, keywords)

\* a selection that keeps the last matching tool
RECURSIVE SelectLastFrom(_, _, _)
SelectLastFrom(tools, i, keywords) ==
    IF i < 1 THEN NotFound
    ELSE IF Matches(tools[i], keywords) THEN tools[i]
    ELSE SelectLastFrom(tools, i - 1, keywords)

selectLast(tools, keywords) == SelectLastFrom(tools, Len(tools), keywords)

selectTool(tools, keywords) == SelectFrom(tools, 1, keywords)

(***************************************************************************)
(* The mock services (lines 581-600).                                      *)
(***************************************************************************)
\* range(min(max_results, 5))
MockSearchCap == 5

MockSearchRecord(query, i) ==
    PyDict(<<"title", "snippet", "url", "source">>,
           <<PyStr("Search Result " \o IntStr(i) \o " for '" \o query \o "'"),
             PyStr("Mock search result snippet for query: " \o query
                       \o ". Result number " \o IntStr(i) \o "."),
             PyStr("https://example.com/result-" \o IntStr(i)),
             PyStr("Mock Search Engine")>>)

\* a mock search that does not cap the number of records
mock_search_uncapped(query, max_results) ==
    [i \in 1..max_results |-> MockSearchRecord(query, i)]

mock_search_service(query, max_results) ==
    [i \in 1..Min(max_results, MockSearchCap) |-> MockSearchRecord(query, i)]

\* kwargs.get(key, 512)
KwargOr512(kwargs, key) == IF HasKey(kwargs, key) THEN DictGet(kwargs, key) ELSE PyInt(DefaultDim)

MockImageData ==
    "data:image/png;base64,iVBORw0KGgoAAAANSUhEUgAAAAEAAAABCAYAAAAfFcSJAAAADUlEQVR42mP8/5+hHgAHggJ/PchI7wAAAABJRU5ErkJggg=="

\* h stands for hash(prompt) % 1000
mock_image_service(prompt, kwargs, h) ==
    PyDict(<<"image_url", "image_data", "status", "prompt_used">>,
           <<PyStr("https://picsum.photos/" \o str(KwargOr512(kwargs, "width")) \o "/"
                       \o str(KwargOr512(kwargs, "height")) \o "?random=" \o IntStr(h)),
             PyStr(MockImageData), PyStr("success"), PyStr(prompt)>>)

(***************************************************************************)
(* The inputs the model draws from.                                        *)
(***************************************************************************)
SeqsUpTo(S, n) == UNION {[1..k -> S] : k \in 0..n}

Queries == {"cats"}

Prompts == {"a cat"}

\* SearchRequest.max_results, ge=1, le=50
MaxResultsInputs == 1..Min(MaxResultsTried, MaxResultsLimit)

\* the keyword arguments of generate_image_with_mcp: those the /image endpoint
\* passes (lines 733-737), and none
KwargsInputs ==
    { PyDict(<<"width", "height", "steps">>, <<PyInt(512), PyInt(768), PyInt(20)>>),
      PyDict(<<>>, <<>>) }

ToolNames == {"web.search.v2", "image.gen", "FLUX_Schnell", "translate"}

ToolLists == SeqsUpTo(ToolNames, MaxTools)

\* JSON texts of one value
ValueTexts == {"\"http://a\"", "\"\"", "null", "0", "7", "false", "true", "[]", "[1]", "{}"}

UrlKeys == {"imageUrl", "image_url", "url"}

\* {"<key>": <value>}
KeyText(key, valueText) == "{\"" \o key \o "\":" \o valueText \o "}"

KeyVariantTexts == {KeyText(k, x) : k \in UrlKeys, x \in ValueTexts}

SearchTexts ==
    { "[]", " [ ] ", "[{\"title\":\"a\"},2,\"x\",[3,\"y\"],null]", "[1,2]",
      "{\"title\":\"T\",\"content\":\"C\",\"source\":\"S\"}", "{\"foo\":1}",
      "42", "\"hi\"", "null", "plain text", "[1," }

ImageTexts ==
    { "http://example.com/a.png", "data:image/png;base64,AAAA", " http://a \n", "junk",
      "{\"imageUrl\":\"\",\"url\":\"http://b\"}",
      "{\"imageUrl\":null,\"image_url\":\"u2\",\"url\":\"u3\"}",
      "{\"imageData\":\"d1\",\"base64\":\"d2\",\"url\":\"u\"}",
      "{\"data\":\"\",\"base64\":\"b\"}" }

Texts == SearchTexts \cup ImageTexts \cup KeyVariantTexts

\* the items of the multi-item content lists
ListItems ==
    { TextItem("[1,2]"), TextItem("{\"foo\":1}"), TextItem("plain text"), OpaqueItem,
      NoneTextItem }

Envelopes ==
    { NoneResult, Envelope("absent", <<>>, "", 0), Envelope("none", <<>>, "", 0),
      Envelope("list", <<>>, "", 0), Envelope("str", <<>>, "", 0),
      Envelope("other", <<>>, "", 0), Envelope("other", <<>>, "", 42),
      Envelope("item", <<OpaqueItem>>, "", 0), Envelope("item", <<NoneTextItem>>, "", 0),
      Envelope("list", <<OpaqueItem>>, "", 0), Envelope("list", <<NoneTextItem>>, "", 0) }
    \cup {Envelope("list", <<TextItem(x)>>, "", 0) : x \in Texts}
    \cup {Envelope("item", <<TextItem(x)>>, "", 0) : x \in SearchTexts}
    \cup {Envelope("str", <<>>, x, 0) : x \in SearchTexts}
    \cup {Envelope("list", items, "", 0) :
              items \in UNION {[1..k -> ListItems] : k \in 2..MaxItems}}

\* the envelope variable before call_tool has returned
NoEnvelope == Envelope("absent", <<>>, "", 0)

(***************************************************************************)
(* The process.  One request at a time runs search_with_mcp or             *)
(* generate_image_with_mcp; pc is its position, a step ends at an await.   *)
(*   MCP_AVAILABLE  the flag set by the import at the top of main.py       *)
(*   op             "search" or "image" ("" when idle)                     *)
(*   query, max_results, prompt, kwargs   the arguments of the call        *)
(*   session        "none", "open" or "closed": the session of the request *)
(*   tools          tools_result.tools, the names as the provider sent them*)
(*   selected       search_tool / image_tool, NotFound for None            *)
(*   result         the envelope call_tool returned                        *)
(*   ret            the value returned to the caller (PyNone before)       *)
(*   raised         the exception that left the function (NoExc if none)   *)
(*   path           the exit the request took                              *)
(*   transport      "none", "open" or "closed": the (read, write) streams  *)
(*                  of streamablehttp_client for the request               *)
(*   log            the steps of the request so far, in order: the remote  *)
(*                  operations attempted (open, initialize, list_tools,    *)
(*                  call_tool) and the local steps select and normalize    *)
(*   live           the number of transports and sessions of the process   *)
(*                  that are open; it outlives the request                 *)
(* The other variables belong to the specifications further down:          *)
(*   reqs           the requests that run concurrently                     *)
(*   search_history, image_history, search_seq, image_seq, response        *)
(*                  the history tables, their id sequences and the answer  *)
(*                  to the last HTTP request                               *)
(*   credentials    the bearer credentials of the last HTTP request        *)
(*   image_request  save_result and the authenticated user of the /image   *)
(*                  request being served                                   *)
(*   users, users_seq, regs                                                *)
(*                  the users table, its id sequence and the register      *)
(*                  requests in progress                                   *)
(***************************************************************************)
VARIABLES MCP_AVAILABLE, pc, op, query, max_results, prompt, kwargs, session,
          tools, selected, result, ret, raised, path, transport, log, live,
          reqs, search_history, image_history, search_seq, image_seq, response,
          credentials, image_request, users, users_seq, regs

vars == <<MCP_AVAILABLE, pc, op, query, max_results, prompt, kwargs, session,
          tools, selected, result, ret, raised, path, transport, log, live,
          reqs, search_history, image_history, search_seq, image_seq, response,
          credentials, image_request, users, users_seq, regs>>

args == <<op, query, max_results, prompt, kwargs>>

\* the variables of the other specifications
rest == <<reqs, search_history, image_history, search_seq, image_seq, response,
          credentials, image_request, users, users_seq, regs>>

\* no Authorization header
NoCredentials == [kind |-> "none", sub |-> "", expired |-> FALSE]

\* no /image request is being served
NoImageRequest == [save_result |-> FALSE, current_user |-> 0]

\* no HTTP request was received and the users table is as CREATE TABLE leaves it
AccountsIdle ==
    /\ credentials = NoCredentials
    /\ image_request = NoImageRequest
    /\ users = {} /\ users_seq = 0
    /\ regs = <<>>

\* the values of those variables while they are not in use
RestIdle ==
    /\ reqs = <<>>
    /\ search_history = {} /\ image_history = {}
    /\ search_seq = 0 /\ image_seq = 0
    /\ response = [status |-> 0, detail |-> "", endpoint |-> "", user |-> 0, id |-> 0]
    /\ AccountsIdle

Init ==
    /\ MCP_AVAILABLE \in BOOLEAN
    /\ pc = "idle"
    /\ op = ""
    /\ query = ""
    /\ max_results = 0
    /\ prompt = ""
    /\ kwargs = PyDict(<<>>, <<>>)
    /\ session = "none"
    /\ tools = <<>>
    /\ selected = NotFound
    /\ result = NoEnvelope
    /\ ret = PyNone
    /\ raised = NoExc
    /\ path = ""
    /\ transport = "none"
    /\ log = <<>>
    /\ live = 0
    /\ RestIdle

\* the except clause of the function fn (lines 489-491, 575-577)
Handler(fn, e) == IF fn = "search" THEN PyList(SearchExcept(e)) ELSE ImageExcept(e)

\* leaving an async with block closes what it opened
Closed(resource) == IF resource = "open" THEN "closed" ELSE resource

\* the number of the two resources of the request that are open
OpenCount(s, t) == (IF s = "open" THEN 1 ELSE 0) + (IF t = "open" THEN 1 ELSE 0)

\* a failure that starts the request over instead of ending it
FailRetries(fn, e, where) ==
    /\ pc' = "open"
    /\ path' = where
    /\ session' = Closed(session)
    /\ transport' = Closed(transport)
    /\ live' = live - OpenCount(session, transport)
    /\ UNCHANGED <<ret, raised>>

\* an exception e raised inside the try block of fn at the step `where`: the
\* async with blocks close the session and the transport, the except clause
\* turns e into the return value if it catches it
Fail(fn, e, where) ==
    /\ pc' = "done"
    /\ path' = where
    /\ session' = Closed(session)
    /\ transport' = Closed(transport)
    /\ live' = live - OpenCount(session, transport)
    /\ IF CatchesException(e.type)
       THEN ret' = Handler(fn, e) /\ raised' = NoExc
       ELSE ret' = PyNone /\ raised' = e

\* a return that leaves the session and the transport as they are
ReturnLeavesOpen(val, where) ==
    /\ pc' = "done"
    /\ path' = where
    /\ ret' = val
    /\ raised' = NoExc
    /\ UNCHANGED <<session, transport, live>>

\* a return statement inside the async with blocks
Return(val, where) ==
    /\ pc' = "done"
    /\ path' = where
    /\ session' = "closed"
    /\ transport' = "closed"
    /\ live' = live - OpenCount(session, transport)
    /\ ret' = val
    /\ raised' = NoExc

\* search_with_mcp(query, max_results) is called: it enters the try block and
\* evaluates streamablehttp_client(...), a NameError when the import failed
StartSearch(q, m) ==
    /\ pc = "idle"
    /\ op' = "search" /\ query' = q /\ max_results' = m
    /\ IF MCP_AVAILABLE
       THEN pc' = "open" /\ UNCHANGED <<session, ret, raised, path, transport, live>>
       ELSE Fail("search", NameErrorClient, "name_error")
    /\ UNCHANGED <<MCP_AVAILABLE, prompt, kwargs, tools, selected, result, log, rest>>

\* generate_image_with_mcp(prompt, **kwargs) is called (lines 496-500)
StartImage(p, kw) ==
    /\ pc = "idle"
    /\ op' = "image" /\ prompt' = p /\ kwargs' = kw
    /\ pc' = IF MCP_AVAILABLE THEN "open" ELSE "mock_sleep"
    /\ UNCHANGED <<MCP_AVAILABLE, query, max_results, session, tools, selected,
                   result, ret, raised, path, transport, log, live, rest>>

\* mock_image_service returns after its sleep
MockImageDone(h) ==
    /\ pc = "mock_sleep"
    /\ pc' = "done"
    /\ path' = "fallback"
    /\ ret' = mock_image_service(prompt, kwargs, h)
    /\ UNCHANGED <<MCP_AVAILABLE, args, session, tools, selected, result, raised,
                   transport, log, live, rest>>

\* both async with blocks are entered
OpenSession ==
    /\ pc = "open"
    /\ pc' = "initialize"
    /\ transport' = "open"
    /\ session' = "open"
    /\ live' = live + 2
    /\ log' = Append(log, "open")
    /\ UNCHANGED <<MCP_AVAILABLE, args, tools, selected, result, ret, raised, path, rest>>

\* streamablehttp_client(...) raises on entry: nothing was opened
OpenFails(e) ==
    /\ pc = "open"
    /\ Fail(op, e, "open")
    /\ log' = Append(log, "open")
    /\ UNCHANGED <<MCP_AVAILABLE, args, tools, selected, result, rest>>

\* the transport is open and ClientSession(read, write) raises on entry: the
\* outer async with closes the transport
SessionEnterFails(e) ==
    /\ pc = "open"
    /\ pc' = "done"
    /\ path' = "open"
    /\ transport' = "closed"
    /\ IF CatchesException(e.type)
       THEN ret' = Handler(op, e) /\ raised' = NoExc
       ELSE ret' = PyNone /\ raised' = e
    /\ log' = Append(log, "open")
    /\ UNCHANGED <<MCP_AVAILABLE, args, session, tools, selected, result, live, rest>>

\* await session.initialize()
Initialize ==
    /\ pc = "initialize"
    /\ pc' = "list_tools"
    /\ log' = Append(log, "initialize")
    /\ UNCHANGED <<MCP_AVAILABLE, args, session, tools, selected, result, ret, raised,
                   path, transport, live, rest>>

InitializeFails(e) ==
    /\ pc = "initialize"
    /\ Fail(op, e, "initialize")
    /\ log' = Append(log, "initialize")
    /\ UNCHANGED <<MCP_AVAILABLE, args, tools, selected, result, rest>>

\* await session.list_tools() returns ts; the tool is selected, and the
\* function returns if there is none (lines 362-369, 504-515)
ListTools(ts) ==
    /\ pc = "list_tools"
    /\ tools' = ts
    /\ selected' = selectTool(ts, IF op = "search" THEN SearchKeywords ELSE ImageKeywords)
    /\ IF selected' = NotFound
       THEN Return(IF op = "search" THEN PyList(SearchToolNotFound)
                   ELSE ImageToolNotFound, "tool_not_found")
       ELSE pc' = "call_tool" /\ UNCHANGED <<session, ret, raised, path, transport, live>>
    /\ log' = log \o <<"list_tools", "select">>
    /\ UNCHANGED <<MCP_AVAILABLE, args, result, rest>>

ListToolsFails(e) ==
    /\ pc = "list_tools"
    /\ Fail(op, e, "list_tools")
    /\ log' = Append(log, "list_tools")
    /\ UNCHANGED <<MCP_AVAILABLE, args, tools, selected, result, rest>>

\* await session.call_tool(...) returns the envelope r, which is normalised
\* and returned (lines 371-487, 528-573)
Normalized(n) ==
    IF n.exc = NoExc
    THEN Return(IF op = "search" THEN PyList(n.val) ELSE n.val, "normal")
    ELSE Fail(op, n.exc, "normalize")

CallTool(r) ==
    /\ pc = "call_tool"
    /\ result' = r
    /\ Normalized(IF op = "search" THEN NormalizeSearch(r, query, max_results)
                  ELSE NormalizeImage(r, prompt))
    /\ log' = log \o <<"call_tool", "normalize">>
    /\ UNCHANGED <<MCP_AVAILABLE, args, tools, selected, rest>>

CallToolFails(e) ==
    /\ pc = "call_tool"
    /\ Fail(op, e, "call_tool")
    /\ log' = Append(log, "call_tool")
    /\ UNCHANGED <<MCP_AVAILABLE, args, tools, selected, result, rest>>

\* the caller has the outcome and the locals of the call are gone; the process
\* serves the next request
Finish ==
    /\ pc = "done"
    /\ pc' = "idle"
    /\ op' = "" /\ query' = "" /\ max_results' = 0 /\ prompt' = ""
    /\ kwargs' = PyDict(<<>>, <<>>)
    /\ session' = "none"
    /\ tools' = <<>>
    /\ selected' = NotFound
    /\ result' = NoEnvelope
    /\ ret' = PyNone
    /\ raised' = NoExc
    /\ path' = ""
    /\ transport' = "none"
    /\ log' = <<>>
    /\ UNCHANGED <<MCP_AVAILABLE, live, rest>>

Next ==
    \/ \E q \in Queries, m \in MaxResultsInputs : StartSearch(q, m)
    \/ \E p \in Prompts, kw \in KwargsInputs : StartImage(p, kw)
    \/ \E h \in 0..Min(MaxHash, HashModulus - 1) : MockImageDone(h)
    \/ OpenSession
    \/ \E e \in ProviderFailures : OpenFails(e)
    \/ \E e \in ProviderFailures : SessionEnterFails(e)
    \/ Initialize
    \/ \E e \in ProviderFailures : InitializeFails(e)
    \/ \E ts \in ToolLists : ListTools(ts)
    \/ \E e \in ProviderFailures : ListToolsFails(e)
    \/ \E r \in Envelopes : CallTool(r)
    \/ \E e \in ProviderFailures : CallToolFails(e)
    \/ Finish

Spec == Init /\ [][Next]_vars

(***************************************************************************)
(* Properties.                                                             *)
(***************************************************************************)
\* the request has ended at a failure of the remote interaction
ProviderFailurePaths == {"open", "initialize", "list_tools", "call_tool", "normalize"}

\* {error: message} and nothing else
IsErrorRecord(d) == d.t = "dict" /\ d.ks = <<"error">> /\ d.xs[1].t = "str"

\* C1: search_with_mcp and generate_image_with_mcp never raise to their caller
\* because of a remote-provider failure: whether the failure is at session open,
\* initialize, list_tools, call_tool or while normalising the response, the
\* function returns the in-band error value, [{error: message}] for search and
\* {error: message} for image.
C1_NeverRaises ==
    (pc = "done" /\ path \in ProviderFailurePaths) =>
        /\ raised = NoExc
        /\ IF op = "search"
           THEN ret.t = "list" /\ Len(ret.xs) = 1 /\ IsErrorRecord(ret.xs[1])
           ELSE IsErrorRecord(ret)

\* a search whose normalisation raised (a text attribute that is no str)
C1_Witness ==
    pc = "done" /\ op = "search" /\ path = "normalize" /\ raised = NoExc

\* the envelope's content is one text item (alone or in a list of one) whose
\* text is a JSON array
C2_ArrayEnvelope ==
    /\ result.ckind \in {"list", "item"}
    /\ Len(result.items) = 1
    /\ result.items[1].hasText /\ result.items[1].textIsStr
    /\ json_loads(result.items[1].text).ok
    /\ json_loads(result.items[1].text).v.t = "list"

C2_Array == json_loads(result.items[1].text).v.xs

C2_Case == pc = "done" /\ op = "search" /\ path = "normal" /\ C2_ArrayEnvelope

\* the record that corresponds to an array element: the element itself if it
\* is a mapping, else the element's str() in the template
C2_RecordOf(x) ==
    IF x.t = "dict" THEN x
    ELSE PyDict(<<"title", "content", "source">>,
                <<PyStr("Search result for '" \o query \o "'"), PyStr(str(x)),
                  PyStr("DuckDuckGo")>>)

C2_InOrder ==
    /\ Len(ret.xs) = Min(Len(C2_Array), max_results)
    /\ \A i \in 1..Len(ret.xs) : ret.xs[i] = C2_RecordOf(C2_Array[i])

\* C2 as claimed: for every max_results and every JSON array of any length,
\* 0 included, exactly min(len(array), max_results) records are returned, the
\* i-th for the i-th element.
C2_Original == C2_Case => C2_InOrder

\* C2: for every max_results in 1..50 and every envelope whose content is a text
\* item holding a well-formed non-empty JSON array, search normalisation returns
\* exactly min(len(array), max_results) records, the i-th for the i-th element;
\* for the empty array it returns the one record "No results found for '<q>'".
C2_Truncates ==
    C2_Case =>
        IF Len(C2_Array) = 0
        THEN /\ Len(ret.xs) = 1
             /\ DictGet(ret.xs[1], "title") = PyStr("No results found for '" \o query \o "'")
             /\ DictGet(ret.xs[1], "content") = PyStr("No search results available")
        ELSE C2_InOrder

\* an array longer than max_results was cut
C2_Witness == C2_Case /\ max_results >= 2 /\ Len(C2_Array) > max_results

\* the content is empty or absent: no content attribute, None, [] or ""
C3_EmptyContent ==
    \/ result.ckind \in {"absent", "none"}
    \/ result.ckind = "list" /\ Len(result.items) = 0
    \/ result.ckind = "str" /\ result.s = ""

\* C3: for an envelope whose content is empty or absent, search normalisation
\* returns exactly one record, the sentinel "Search completed for '<q>'", never
\* an empty sequence.
C3_OneSentinel ==
    (pc = "done" /\ op = "search" /\ path = "normal" /\ C3_EmptyContent) =>
        /\ Len(ret.xs) = 1
        /\ DictGet(ret.xs[1], "title") = PyStr("Search completed for '" \o query \o "'")
        /\ HasKey(ret.xs[1], "content")
        /\ DictGet(ret.xs[1], "source") = PyStr("DuckDuckGo")

\* the content was the empty list
C3_Witness ==
    /\ pc = "done" /\ op = "search" /\ path = "normal"
    /\ result.ckind = "list" /\ Len(result.items) = 0
    /\ Len(ret.xs) = 1

\* call_tool returned: the function ended in or after the normalisation
C4_Case == pc = "done" /\ op = "search" /\ path \in {"normal", "normalize"}

IsSearchRecord(x) ==
    x.t = "dict" /\ HasKey(x, "title") /\ HasKey(x, "content") /\ HasKey(x, "source")

\* C4 as claimed, for the envelopes whose normalisation raises nothing: every
\* returned element has the fields title, content and source.
C4_Original ==
    (C4_Case /\ path = "normal") => \A i \in 1..Len(ret.xs) : IsSearchRecord(ret.xs[i])

\* the texts the envelope carries
C4_Texts ==
    {result.items[i].text :
        i \in {j \in 1..Len(result.items) :
                  result.items[j].hasText /\ result.items[j].textIsStr}}
    \cup (IF result.ckind = "str" THEN {result.s} ELSE {})

\* the mappings the provider sent: a text that decodes to a mapping, or the
\* mappings among the elements of a text that decodes to an array
C4_MappingsOf(v) ==
    IF v.t = "dict" THEN {v}
    ELSE IF v.t = "list" THEN {v.xs[i] : i \in {j \in 1..Len(v.xs) : v.xs[j].t = "dict"}}
    ELSE {}

C4_ProviderMappings ==
    UNION {C4_MappingsOf(json_loads(x).v) : x \in {y \in C4_Texts : json_loads(y).ok}}

\* C4: whenever the invocation succeeded, every returned element is a mapping;
\* it has the fields title, content and source unless it is a mapping decoded
\* from the provider's payload, which is passed through with the keys it has, or
\* the {error: message} record returned when the normalisation raised.
C4_AllMappings ==
    C4_Case =>
        \A i \in 1..Len(ret.xs) :
            /\ ret.xs[i].t = "dict"
            /\ \/ IsSearchRecord(ret.xs[i])
               \/ ret.xs[i] \in C4_ProviderMappings
               \/ path = "normalize" /\ IsErrorRecord(ret.xs[i])

\* a provider mapping without the fields beside a wrapped element
C4_Witness ==
    /\ C4_Case /\ path = "normal"
    /\ \E i \in 1..Len(ret.xs) : ~IsSearchRecord(ret.xs[i])
    /\ \E i \in 1..Len(ret.xs) :
           DictGet(ret.xs[i], "title") = PyStr("Search result for '" \o query \o "'")

\* C5 as claimed: whenever the image invocation succeeded, whatever the first
\* item's text is, nothing is raised and the returned record has status success.
C5_Claim ==
    (pc = "done" /\ op = "image" /\ path \in {"normal", "normalize"}) =>
        raised = NoExc /\ DictGet(ret, "status") = PyStr("success")

\* the image invocation failed: session open, initialize, list_tools or call_tool raised
C6_Case ==
    pc = "done" /\ op = "image" /\ path \in {"open", "initialize", "list_tools", "call_tool"}

\* C6 as claimed: the returned record has status = error and a message.
C6_Original ==
    C6_Case =>
        /\ DictGet(ret, "status") = PyStr("error")
        /\ HasKey(ret, "error") \/ HasKey(ret, "message")

\* C6: when the image tool invocation fails, generate_image_with_mcp returns the
\* record {error: "Image generation service unavailable: <message>"}; the record
\* has no status field.
C6_ErrorRecord ==
    C6_Case =>
        /\ raised = NoExc
        /\ IsErrorRecord(ret)
        /\ ~HasKey(ret, "status")
        /\ \E e \in ProviderFailures :
               ret.xs[1].s = "Image generation service unavailable: " \o e.msg

C6_Witness == C6_Case /\ path = "call_tool" /\ session = "closed"

\* C7 as claimed: without the remote dependency every request is served by the
\* fallback provider (mock search records, placeholder image with status
\* success) and no session is opened.
C7_Claim ==
    (~MCP_AVAILABLE /\ pc = "done") =>
        /\ session = "none"
        /\ op = "search" => ret = PyList(mock_search_service(query, max_results))
        /\ op = "image" => /\ DictGet(ret, "status") = PyStr("success")
                           /\ DictGet(ret, "image_data") = PyStr(MockImageData)

\* no advertised name contains generate, image or flux
C8_NoImageTool ==
    \A i \in 1..Len(tools) :
        /\ ~Contains(Lower(tools[i]), "generate")
        /\ ~Contains(Lower(tools[i]), "image")
        /\ ~Contains(Lower(tools[i]), "flux")

\* an image request whose tools were listed, none of them an image tool
C8_Case ==
    /\ pc = "done" /\ op = "image"
    /\ path \in {"tool_not_found", "call_tool", "normal", "normalize"}
    /\ C8_NoImageTool

\* C8 as claimed: the request is served by the fallback provider, the
\* placeholder image with status success.
C8_Original ==
    C8_Case =>
        /\ DictGet(ret, "status") = PyStr("success")
        /\ DictGet(ret, "image_data") = PyStr(MockImageData)

\* C8: when no advertised tool name contains generate, image or flux,
\* generate_image_with_mcp returns the in-band record {error: "Image generation
\* service temporarily unavailable"}; the fallback provider is not used.
C8_Unavailable ==
    C8_Case =>
        /\ path = "tool_not_found"
        /\ ret.ks = <<"error">>
        /\ ret.xs = <<PyStr("Image generation service temporarily unavailable")>>

C8_Witness == C8_Case /\ Len(tools) > 0 /\ selected = NotFound

\* list_tools has just returned and one of the tools was looked for: the
\* request goes on to call_tool, or has returned for want of a tool
C9_Listed ==
    \/ pc = "call_tool"
    \/ pc = "done" /\ path = "tool_not_found"

C9_Hit(name, keywords) == \E k \in keywords : Contains(Lower(name), k)

\* sel is the first tool of ts, in the order of ts, with a hit; NotFound if none has
C9_First(ts, keywords, sel) ==
    IF \E i \in 1..Len(ts) : C9_Hit(ts[i], keywords)
    THEN \E i \in 1..Len(ts) :
             /\ C9_Hit(ts[i], keywords)
             /\ \A j \in 1..(i - 1) : ~C9_Hit(ts[j], keywords)
             /\ sel = ts[i]
    ELSE sel = NotFound

\* C9: selectTool returns the first tool, in the order the provider returned
\* them, whose lowercased name contains a keyword of the set, and NotFound
\* exactly when no name contains one; tools [web.search.v2, image.gen] give
\* web.search.v2 for {search} and NotFound for {translate}.
C9_FirstMatch ==
    C9_Listed =>
        /\ C9_First(tools, IF op = "search" THEN {"search"}
                           ELSE {"generate", "image", "flux"}, selected)
        /\ C9_First(tools, {"search"}, selectTool(tools, <<"search">>))
        /\ C9_First(tools, {"generate", "image", "flux"},
                    selectTool(tools, <<"generate", "image", "flux">>))
        /\ C9_First(tools, {"translate"}, selectTool(tools, <<"translate">>))
        /\ tools = <<"web.search.v2", "image.gen">> =>
               /\ selectTool(tools, <<"search">>) = "web.search.v2"
               /\ selectTool(tools, <<"translate">>) = NotFound

\* two different image tools were advertised, the first in capitals
C9_Witness ==
    /\ pc = "call_tool" /\ op = "image"
    /\ tools = <<"FLUX_Schnell", "image.gen">>
    /\ selected = "FLUX_Schnell"

\* the first content item's text is the mapping {key: X}, key one of imageUrl,
\* image_url and url
C10_Variant ==
    /\ result.ckind = "list" /\ Len(result.items) >= 1
    /\ result.items[1].hasText /\ result.items[1].textIsStr
    /\ json_loads(result.items[1].text).ok
    /\ json_loads(result.items[1].text).v.t = "dict"
    /\ Len(json_loads(result.items[1].text).v.ks) = 1
    /\ json_loads(result.items[1].text).v.ks[1] \in {"imageUrl", "image_url", "url"}

C10_Key == json_loads(result.items[1].text).v.ks[1]

C10_X == json_loads(result.items[1].text).v.xs[1]

C10_Case == pc = "done" /\ op = "image" /\ path \in {"normal", "normalize"} /\ C10_Variant

\* X is a value Python takes for true: not null, false, 0, "", [] or {}
C10_TrueValue(x) ==
    /\ x.t # "none"
    /\ x.t \in {"bool", "int"} => x.n # 0
    /\ x.t = "str" => x.s # ""
    /\ x.t \in {"list", "dict"} => Len(x.xs) > 0

\* C10 as claimed: for every value X the three key variants yield imageUrl = X.
C10_Original == C10_Case => DictGet(ret, "image_url") = C10_X

\* C10: for every value X that Python takes for true (a non-empty string, a
\* non-zero number, true, a non-empty array or mapping), a first content item
\* whose text is {imageUrl: X}, {image_url: X} or {url: X} yields the canonical
\* imageUrl = X in all three cases.  For any other X the variants differ:
\* {url: X} yields X, {imageUrl: X} and {image_url: X} yield None.
C10_KeyVariants ==
    C10_Case =>
        /\ path = "normal"
        /\ DictGet(ret, "image_url") =
               IF C10_TrueValue(C10_X) \/ C10_Key = "url" THEN C10_X ELSE PyNone

C10_Witness ==
    C10_Case /\ C10_Key = "url" /\ C10_X = PyStr("http://a")
        /\ DictGet(ret, "image_url") = PyStr("http://a")

\* an image request whose first content item holds a text that is no JSON
C11_Case ==
    /\ pc = "done" /\ op = "image" /\ path \in {"normal", "normalize"}
    /\ result.ckind = "list" /\ Len(result.items) >= 1
    /\ result.items[1].hasText /\ result.items[1].textIsStr
    /\ ~json_loads(result.items[1].text).ok

C11_Text == result.items[1].text

\* the returned record classifies the text t: a URL, inline data, or neither
C11_Classified(t) ==
    /\ path = "normal"
    /\ DictGet(ret, "status") = PyStr("success")
    /\ DictGet(ret, "image_url") = IF StartsWith(t, "http") THEN PyStr(t) ELSE PyNone
    /\ DictGet(ret, "image_data") =
           IF ~StartsWith(t, "http") /\ StartsWith(t, "data:image/") THEN PyStr(t)
           ELSE PyNone

\* C11 as claimed: the raw text itself is classified, and a text that starts
\* with neither http nor data:image/ leaves both fields unset.
C11_Original == C11_Case => C11_Classified(C11_Text)

\* C11: when the first content item's text is not valid JSON, the text with the
\* white space around it removed is classified: starting with http it becomes
\* image_url with image_data unset, starting with data:image/ it becomes
\* image_data with image_url unset, any other text leaves both unset; in all
\* three cases status is success.
C11_RawText == C11_Case => C11_Classified(Strip(C11_Text))

C11_Witness ==
    /\ C11_Case /\ C11_Text = "data:image/png;base64,AAAA"
    /\ DictGet(ret, "image_data") = PyStr("data:image/png;base64,AAAA")
    /\ DictGet(ret, "image_url") = PyNone

\* the envelope of a search holds a single text item: a content list of one
\* item with a text, or a content that is itself an item with a text
C12_SingleText ==
    /\ result.ckind \in {"list", "item"} /\ Len(result.items) = 1
    /\ result.items[1].hasText /\ result.items[1].textIsStr

C12_Decoded == json_loads(result.items[1].text)

C12_Scalar(v) == v.t \in {"none", "bool", "int", "str"}

\* such a search has returned, its text no JSON or a JSON scalar
C12_Case ==
    /\ pc = "done" /\ op = "search" /\ path \in {"normal", "normalize"}
    /\ C12_SingleText
    /\ ~C12_Decoded.ok \/ C12_Scalar(C12_Decoded.v)

\* C12: for a search of query q whose envelope holds a single text item, if the
\* text is not valid JSON or decodes to a JSON scalar, the search returns exactly
\* one record {title: "Search result for '<q>'", content: the raw text, resp.
\* str(scalar), source: "DuckDuckGo"}; the bare integer 42 yields content "42".
C12_OneTemplate ==
    C12_Case =>
        /\ path = "normal"
        /\ ret.t = "list" /\ Len(ret.xs) = 1
        /\ ret.xs[1].ks = <<"title", "content", "source">>
        /\ DictGet(ret.xs[1], "title") = PyStr("Search result for '" \o query \o "'")
        /\ DictGet(ret.xs[1], "source") = PyStr("DuckDuckGo")
        /\ DictGet(ret.xs[1], "content") =
               IF C12_Decoded.ok THEN PyStr(str(C12_Decoded.v))
               ELSE PyStr(result.items[1].text)
        /\ result.items[1].text = "42" => DictGet(ret.xs[1], "content") = PyStr("42")
        /\ result.items[1].text = "\"hi\"" => DictGet(ret.xs[1], "content") = PyStr("hi")
        /\ result.items[1].text = "null" => DictGet(ret.xs[1], "content") = PyStr("None")

\* the bare integer 42 was the only content
C12_Witness ==
    /\ C12_Case /\ result.ckind = "list" /\ result.items[1].text = "42"
    /\ DictGet(ret.xs[1], "content") = PyStr("42")

(***************************************************************************)
(* mock_search_service on its own (lines 581-591).  No function of main.py *)
(* calls it, so it is run here by a caller of its own: op = "mock_search", *)
(* pc = "mock_sleep" during asyncio.sleep(0.5).                            *)
(***************************************************************************)
MockQueries == {"cats", "x", "a b"}

\* max_results: int, the values the claim speaks of up to the largest a
\* SearchRequest carries
MockMaxResults == 1..MaxResultsLimit

InitMock == Init /\ MCP_AVAILABLE = FALSE

\* await mock_search_service(q, m) is entered and sleeps
MockSearchCall(q, m) ==
    /\ pc = "idle"
    /\ pc' = "mock_sleep"
    /\ op' = "mock_search" /\ query' = q /\ max_results' = m
    /\ UNCHANGED <<MCP_AVAILABLE, prompt, kwargs, session, tools, selected, result,
                   ret, raised, path, transport, log, live, rest>>

\* the sleep is over: the list comprehension is returned
MockSearchDone ==
    /\ pc = "mock_sleep" /\ op = "mock_search"
    /\ pc' = "done"
    /\ path' = "fallback"
    /\ ret' = PyList(mock_search_service(query, max_results))
    /\ UNCHANGED <<MCP_AVAILABLE, args, session, tools, selected, result, raised,
                   transport, log, live, rest>>

NextMock ==
    \/ \E q \in MockQueries, m \in MockMaxResults : MockSearchCall(q, m)
    \/ MockSearchDone
    \/ Finish

SpecMock == InitMock /\ [][NextMock]_vars

C13_Case == pc = "done" /\ op = "mock_search"

\* record i carries the number i and the query q
C13_Numbered(rec, i, q) ==
    /\ DictGet(rec, "title") = PyStr("Search Result " \o NatStr(i) \o " for '" \o q \o "'")
    /\ DictGet(rec, "url") = PyStr("https://example.com/result-" \o NatStr(i))
    /\ Contains(DictGet(rec, "title").s, q)
    /\ Contains(DictGet(rec, "snippet").s, q)
    /\ Contains(DictGet(rec, "snippet").s, "Result number " \o NatStr(i) \o ".")

\* C13: mock_search_service never fails and, for every query q and every
\* max_results >= 1, returns exactly min(max_results, 5) records, numbered
\* from 1 in order, each of which contains q; cats with max_results = 10 gives
\* exactly 5 records.
C13_MockSearch ==
    C13_Case =>
        /\ raised = NoExc
        /\ ret.t = "list"
        /\ Len(ret.xs) = IF max_results < 5 THEN max_results ELSE 5
        /\ \A i \in 1..Len(ret.xs) : C13_Numbered(ret.xs[i], i, query)
        /\ (query = "cats" /\ max_results = 10) => Len(ret.xs) = 5

C13_Witness ==
    /\ C13_Case /\ query = "cats" /\ max_results = 10
    /\ Len(ret.xs) = 5
    /\ Contains(DictGet(ret.xs[5], "title").s, "cats")

\* a search whose invocation succeeded with an envelope without content: no
\* content attribute, or content None, "", 0 or []
C14_Case ==
    /\ pc = "done" /\ op = "search" /\ path \in {"normal", "normalize"}
    /\ ~HasContent(result) \/ ~ContentTruthy(result)

\* the single sentinel titled "Search completed for '<query>'"
C14_Sentinel ==
    /\ path = "normal"
    /\ ret.t = "list" /\ Len(ret.xs) = 1
    /\ ret.xs[1].ks = <<"title", "content", "source">>
    /\ DictGet(ret.xs[1], "title") = PyStr("Search completed for '" \o query \o "'")
    /\ DictGet(ret.xs[1], "source") = PyStr("DuckDuckGo")

\* C14 as claimed: the content of the sentinel is exactly "No results
\* available", whatever else the envelope contains.
C14_Original ==
    C14_Case => C14_Sentinel /\ DictGet(ret.xs[1], "content") = PyStr("No results available")

\* C14: if the envelope of a successful search invocation has no content, the
\* search returns the single sentinel record titled "Search completed for
\* '<query>'" with source "DuckDuckGo"; its content is str(result), the text
\* of the whole envelope, and "No results available" only when call_tool
\* returned a false value such as None in place of an envelope.
C14_Completed ==
    C14_Case =>
        /\ C14_Sentinel
        /\ DictGet(ret.xs[1], "content") =
               IF result.truthy THEN PyStr(result.repr) ELSE PyStr("No results available")

\* an envelope with an empty content list came back
C14_Witness ==
    /\ C14_Case /\ result.ckind = "list" /\ result.truthy
    /\ DictGet(ret.xs[1], "content") = PyStr("isError=False")

\* an image request whose first content item's text decodes to a JSON mapping
C15_Case ==
    /\ pc = "done" /\ op = "image" /\ path \in {"normal", "normalize"}
    /\ result.ckind = "list" /\ Len(result.items) >= 1
    /\ result.items[1].hasText /\ result.items[1].textIsStr
    /\ json_loads(result.items[1].text).ok
    /\ json_loads(result.items[1].text).v.t = "dict"

C15_Mapping == json_loads(result.items[1].text).v

C15_UrlKeys == <<"imageUrl", "image_url", "url">>

C15_DataKeys == <<"imageData", "image_data", "data", "base64">>

\* the value of the first key of keys that is present in d, None if none is
C15_FirstPresent(d, keys) ==
    IF \E i \in 1..Len(keys) : HasKey(d, keys[i])
    THEN DictGet(d, keys[CHOOSE i \in 1..Len(keys) :
                             /\ HasKey(d, keys[i])
                             /\ \A j \in 1..(i - 1) : ~HasKey(d, keys[j])])
    ELSE PyNone

\* the first value that Python takes for true among d.get(key), key in the
\* order of keys; d.get of the last key when none is
C15_FirstTrue(d, keys) ==
    IF \E i \in 1..Len(keys) : Truthy(DictGet(d, keys[i]))
    THEN DictGet(d, keys[CHOOSE i \in 1..Len(keys) :
                             /\ Truthy(DictGet(d, keys[i]))
                             /\ \A j \in 1..(i - 1) : ~Truthy(DictGet(d, keys[j]))])
    ELSE DictGet(d, keys[Len(keys)])

\* C15 as claimed: the first key present wins, even if its value is empty or null.
C15_Original ==
    C15_Case =>
        /\ DictGet(ret, "image_url") = C15_FirstPresent(C15_Mapping, C15_UrlKeys)
        /\ DictGet(ret, "image_data") = C15_FirstPresent(C15_Mapping, C15_DataKeys)

\* C15: when the first content item's text decodes to a JSON mapping, image_url
\* is the first value that Python takes for true among the keys imageUrl,
\* image_url, url in that order, and image_data the first such value among
\* imageData, image_data, data, base64; a key whose value is empty, zero, false
\* or null is passed over for a later key, and when no key has a true value the
\* field is the value of the last key (url, base64), None if that key is absent.
C15_FirstTrueValue ==
    C15_Case =>
        /\ path = "normal"
        /\ DictGet(ret, "image_url") = C15_FirstTrue(C15_Mapping, C15_UrlKeys)
        /\ DictGet(ret, "image_data") = C15_FirstTrue(C15_Mapping, C15_DataKeys)

\* imageUrl is null, image_url and url both hold a URL: image_url wins
C15_Witness ==
    /\ C15_Case
    /\ HasKey(C15_Mapping, "imageUrl") /\ DictGet(C15_Mapping, "imageUrl") = PyNone
    /\ DictGet(C15_Mapping, "image_url") = PyStr("u2")
    /\ DictGet(C15_Mapping, "url") = PyStr("u3")
    /\ DictGet(ret, "image_url") = PyStr("u2")

\* the request opened a transport session
C16_Opened == Len(log) > 0 /\ log[1] = "open" /\ "closed" \in {session, transport}

\* C16: every request opens its own session and releases it: when search_with_mcp
\* or generate_image_with_mcp returns, on every exit path (normal result, tool
\* not found, invocation failure, normalisation failure), the session and the
\* transport it opened are closed and nothing of the process is left open; a
\* request that uses a session opened it itself, and no session is open between
\* requests for a later request to use.
C16_Released ==
    /\ pc = "done" =>
           /\ session # "open" /\ transport # "open" /\ live = 0
           /\ path \in {"initialize", "list_tools", "tool_not_found", "call_tool",
                        "normal", "normalize"} =>
                  session = "closed" /\ transport = "closed"
    /\ pc = "idle" => session = "none" /\ transport = "none" /\ live = 0
    /\ pc \in {"initialize", "list_tools", "call_tool"} =>
           /\ Len(log) > 0 /\ log[1] = "open"
           /\ session = "open" /\ transport = "open" /\ live = 2

\* a request returned after its normalisation raised, with its session closed
C16_Witness ==
    /\ pc = "done" /\ path = "normalize" /\ C16_Opened
    /\ session = "closed" /\ transport = "closed" /\ live = 0

\* the steps of one request in their order
C17_Order == <<"open", "initialize", "list_tools", "select", "call_tool", "normalize">>

C17_IsPrefix(s, t) == Len(s) <= Len(t) /\ \A i \in 1..Len(s) : s[i] = t[i]

C17_Has(step) == \E i \in 1..Len(log) : log[i] = step

\* the answer of the request when no tool was found
C17_Unavailable ==
    IF op = "search"
    THEN ret = PyList(<<PyDict(<<"error">>, <<PyStr("Search service temporarily unavailable")>>)>>)
    ELSE ret = PyDict(<<"error">>, <<PyStr("Image generation service temporarily unavailable")>>)

\* C17: within one request the operations are strictly sequential in the order
\* open, (initialize,) list, select, invoke, normalize: a tool is invoked only
\* after, in the same request, the session was opened and initialized, the tools
\* were listed and select returned one of them; when select returns NotFound no
\* invocation is sent and the request ends with the "service temporarily
\* unavailable" result.
C17_Sequential ==
    /\ C17_IsPrefix(log, C17_Order)
    /\ (pc = "call_tool" \/ C17_Has("call_tool")) =>
           /\ C17_IsPrefix(SubSeq(C17_Order, 1, 4), log)
           /\ selected # NotFound
           /\ \E i \in 1..Len(tools) : tools[i] = selected
    /\ pc = "call_tool" => session = "open"
    /\ (C17_Has("select") /\ selected = NotFound) =>
           /\ pc = "done" /\ path = "tool_not_found"
           /\ ~C17_Has("call_tool")
           /\ raised = NoExc
           /\ C17_Unavailable

\* tools were listed, none of them a search tool, and the search has ended
C17_Witness ==
    /\ pc = "done" /\ op = "search" /\ Len(tools) > 0 /\ selected = NotFound
    /\ log = <<"open", "initialize", "list_tools", "select">>

\* the number of times the request attempted the step
C18_Attempts(step) == Cardinality({i \in 1..Len(log) : log[i] = step})

\* C18: the functions never retry: one request makes at most one session-open
\* attempt, at most one list_tools call and at most one call_tool call, and a
\* failed open or initialize ends the request with a failure result returned
\* to the caller.
C18_NoRetry ==
    /\ C18_Attempts("open") <= 1
    /\ C18_Attempts("initialize") <= 1
    /\ C18_Attempts("list_tools") <= 1
    /\ C18_Attempts("call_tool") <= 1
    /\ path \in {"open", "initialize"} =>
           /\ pc = "done"
           /\ log[Len(log)] = path
           /\ C18_Attempts("list_tools") = 0 /\ C18_Attempts("call_tool") = 0
           /\ raised = NoExc
           /\ IF op = "search"
              THEN ret.t = "list" /\ Len(ret.xs) = 1 /\ IsErrorRecord(ret.xs[1])
                   /\ StartsWith(ret.xs[1].xs[1].s, "Search service unavailable: ")
              ELSE IsErrorRecord(ret)
                   /\ StartsWith(ret.xs[1].s, "Image generation service unavailable: ")

\* initialize failed and the request ended there
C18_Witness ==
    /\ pc = "done" /\ path = "initialize" /\ op = "image"
    /\ log = <<"open", "initialize">>
    /\ IsErrorRecord(ret)

(***************************************************************************)
(* Concurrent requests.  FastAPI runs the endpoints as coroutines of one   *)
(* event loop, so several calls of search_with_mcp and                     *)
(* generate_image_with_mcp are in progress at once and interleave at their *)
(* awaits.  reqs[i] is the frame of request i: the arguments and locals of *)
(* its call, and beside them what the provider answered it:                *)
(*   failed_at, exc  the remote operation that raised and what it raised   *)
(*   tools, result   what list_tools and call_tool returned                *)
(*   h               hash(prompt) % 1000 as mock_image_service computed it *)
(* The functions keep nothing outside their frame: MCP_AVAILABLE is the    *)
(* only global they read, and they never assign it.                        *)
(***************************************************************************)
\* the number of requests in progress at once
NumRequests == 2

ConcQueries == {"cats", "x"}

ConcToolLists == {<<>>, <<"web.search.v2", "image.gen">>}

ConcEnvelopes ==
    { Envelope("list", <<>>, "", 0), Envelope("list", <<TextItem("[1,2]")>>, "", 0),
      Envelope("list", <<TextItem("plain text")>>, "", 0) }

\* the exception a remote operation raises
ConcFailure == Exc("ConnectError", "All connection attempts failed")

IdleRequest ==
    [pc |-> "idle", op |-> "", query |-> "", max_results |-> 0, prompt |-> "",
     kwargs |-> PyDict(<<>>, <<>>), session |-> "none", tools |-> <<>>,
     selected |-> NotFound, result |-> NoEnvelope, ret |-> PyNone, raised |-> NoExc,
     path |-> "", failed_at |-> "", exc |-> NoExc, h |-> 0]

\* the single-request variables stay as Init leaves them
ProcessIdle ==
    /\ pc = "idle" /\ op = "" /\ query = "" /\ max_results = 0 /\ prompt = ""
    /\ kwargs = PyDict(<<>>, <<>>) /\ session = "none" /\ tools = <<>>
    /\ selected = NotFound /\ result = NoEnvelope /\ ret = PyNone /\ raised = NoExc
    /\ path = "" /\ transport = "none" /\ log = <<>> /\ live = 0

InitConcurrent ==
    /\ MCP_AVAILABLE \in BOOLEAN
    /\ ProcessIdle
    /\ reqs = [i \in 1..NumRequests |-> IdleRequest]
    /\ search_history = {} /\ image_history = {}
    /\ search_seq = 0 /\ image_seq = 0
    /\ response = [status |-> 0, detail |-> "", endpoint |-> "", user |-> 0, id |-> 0]
    /\ AccountsIdle

\* everything but reqs
notReqs ==
    <<MCP_AVAILABLE, pc, op, query, max_results, prompt, kwargs, session, tools,
      selected, result, ret, raised, path, transport, log, live, search_history,
      image_history, search_seq, image_seq, response, credentials, image_request,
      users, users_seq, regs>>

\* a query read from a variable all requests share
ConcSharedQuery(rs, i) == rs[1].query

\* the local variable query of request i
ConcQuery(rs, i) == rs[i].query

\* a return statement of the frame rq
ConcReturn(rq, val, where) ==
    [rq EXCEPT !.pc = "done", !.path = where, !.ret = val, !.session = Closed(@)]

\* the exception e leaves the try block of the frame rq
ConcRaise(rq, e, where) ==
    [rq EXCEPT !.pc = "done", !.path = where, !.session = Closed(@),
               !.ret = IF CatchesException(e.type) THEN Handler(rq.op, e) ELSE PyNone,
               !.raised = IF CatchesException(e.type) THEN NoExc ELSE e]

\* request i calls search_with_mcp (o = "search") or generate_image_with_mcp
ConcStarted(rq, o, q, m, p, kw) ==
    [rq EXCEPT !.op = o, !.query = q, !.max_results = m, !.prompt = p, !.kwargs = kw]

ConcStart(i, o, q, m, p, kw) ==
    /\ reqs[i].pc = "idle"
    /\ reqs' = [reqs EXCEPT ![i] =
           IF MCP_AVAILABLE THEN [ConcStarted(@, o, q, m, p, kw) EXCEPT !.pc = "open"]
           ELSE IF o = "search"
           THEN ConcRaise(ConcStarted(@, o, q, m, p, kw), NameErrorClient, "name_error")
           ELSE [ConcStarted(@, o, q, m, p, kw) EXCEPT !.pc = "mock_sleep"]]
    /\ UNCHANGED notReqs

\* mock_image_service of request i returns after its sleep
ConcMockDone(i, h) ==
    /\ reqs[i].pc = "mock_sleep"
    /\ reqs' = [reqs EXCEPT ![i] =
           [@ EXCEPT !.pc = "done", !.path = "fallback", !.h = h,
                     !.ret = mock_image_service(reqs[i].prompt, reqs[i].kwargs, h)]]
    /\ UNCHANGED notReqs

\* the async with blocks of request i are entered, or its initialize returns
ConcAdvance(i) ==
    /\ reqs[i].pc \in {"open", "initialize"}
    /\ reqs' = [reqs EXCEPT ![i] =
           IF @.pc = "open" THEN [@ EXCEPT !.pc = "initialize", !.session = "open"]
           ELSE [@ EXCEPT !.pc = "list_tools"]]
    /\ UNCHANGED notReqs

\* the frame after list_tools returned and sel was selected
ConcListed(rq, sel) ==
    IF sel = NotFound
    THEN ConcReturn(rq, IF rq.op = "search" THEN PyList(SearchToolNotFound)
                        ELSE ImageToolNotFound, "tool_not_found")
    ELSE [rq EXCEPT !.pc = "call_tool", !.selected = sel]

ConcListTools(i, ts) ==
    /\ reqs[i].pc = "list_tools"
    /\ reqs' = [reqs EXCEPT ![i] =
           ConcListed([@ EXCEPT !.tools = ts],
                      selectTool(ts, IF @.op = "search" THEN SearchKeywords
                                     ELSE ImageKeywords))]
    /\ UNCHANGED notReqs

\* the frame after the envelope was normalised to n
ConcNormalized(rq, n) ==
    IF n.exc = NoExc
    THEN ConcReturn(rq, IF rq.op = "search" THEN PyList(n.val) ELSE n.val, "normal")
    ELSE ConcRaise(rq, n.exc, "normalize")

ConcCallTool(i, r) ==
    /\ reqs[i].pc = "call_tool"
    /\ reqs' = [reqs EXCEPT ![i] =
           ConcNormalized([@ EXCEPT !.result = r],
                          IF @.op = "search"
                          THEN NormalizeSearch(r, ConcQuery(reqs, i), @.max_results)
                          ELSE NormalizeImage(r, @.prompt))]
    /\ UNCHANGED notReqs

\* the remote operation request i is waiting for raises
ConcFails(i, e) ==
    /\ reqs[i].pc \in {"open", "initialize", "list_tools", "call_tool"}
    /\ reqs' = [reqs EXCEPT ![i] =
           ConcRaise([@ EXCEPT !.failed_at = reqs[i].pc, !.exc = e], e, reqs[i].pc)]
    /\ UNCHANGED notReqs

NextConcurrent ==
    \/ \E i \in 1..NumRequests, q \in ConcQueries :
           ConcStart(i, "search", q, 1, "", PyDict(<<>>, <<>>))
    \/ \E i \in 1..NumRequests, p \in Prompts :
           ConcStart(i, "image", "", 0, p, PyDict(<<>>, <<>>))
    \/ \E i \in 1..NumRequests, h \in 0..Min(MaxHash, HashModulus - 1) : ConcMockDone(i, h)
    \/ \E i \in 1..NumRequests : ConcAdvance(i)
    \/ \E i \in 1..NumRequests, ts \in ConcToolLists : ConcListTools(i, ts)
    \/ \E i \in 1..NumRequests, r \in ConcEnvelopes : ConcCallTool(i, r)
    \/ \E i \in 1..NumRequests : ConcFails(i, ConcFailure)

SpecConcurrent == InitConcurrent /\ [][NextConcurrent]_vars

\* what a normalisation n gives the caller of the function fn
C19_Outcome(fn, n) ==
    IF n.exc # NoExc THEN Handler(fn, n.exc)
    ELSE IF fn = "search" THEN PyList(n.val) ELSE n.val

\* the value the call of the frame rq returns when it runs alone from start to
\* end with the same arguments and the same answers of the provider
C19_RunAlone(rq) ==
    IF ~MCP_AVAILABLE
    THEN IF rq.op = "search" THEN Handler("search", NameErrorClient)
         ELSE mock_image_service(rq.prompt, rq.kwargs, rq.h)
    ELSE IF rq.failed_at \in {"open", "initialize", "list_tools"}
    THEN Handler(rq.op, rq.exc)
    ELSE IF selectTool(rq.tools, IF rq.op = "search" THEN SearchKeywords
                                 ELSE ImageKeywords) = NotFound
    THEN (IF rq.op = "search" THEN PyList(SearchToolNotFound) ELSE ImageToolNotFound)
    ELSE IF rq.failed_at = "call_tool" THEN Handler(rq.op, rq.exc)
    ELSE C19_Outcome(rq.op, IF rq.op = "search"
                            THEN NormalizeSearch(rq.result, rq.query, rq.max_results)
                            ELSE NormalizeImage(rq.result, rq.prompt))

\* every request that has returned returned what it returns when run alone
C19_SameAsAlone ==
    \A i \in 1..NumRequests :
        reqs[i].pc = "done" =>
            reqs[i].raised = NoExc /\ reqs[i].ret = C19_RunAlone(reqs[i])

\* a step writes the frame of one request only
C19_OwnFrame ==
    \E i \in 1..NumRequests : \A j \in 1..NumRequests : j # i => reqs'[j] = reqs[j]

MaxSearchRows == 2
\* the largest id image_history hands out in the model
MaxImageRows == 1

\* rows of users: id, username, email, role, is_active.  The first is the
\* administrator created at start-up; is_active is false only where the
\* operator of the database set it, no endpoint does
Users ==
    { [id |-> 1, username |-> "admin", email |-> "admin@x", role |-> "admin",
       is_active |-> TRUE],
      [id |-> 2, username |-> "alice", email |-> "alice@x", role |-> "basic",
       is_active |-> TRUE],
      [id |-> 3, username |-> "bob", email |-> "bob@x", role |-> "basic",
       is_active |-> FALSE] }

\* the bearer credentials a request carries: a token this server signed, of
\* type access or refresh, for the subject sub, expired or not; a token it
\* cannot verify ("garbage"); or no Authorization header ("none")
Credentials ==
    { [kind |-> "access", sub |-> u, expired |-> FALSE] : u \in {"admin", "alice", "bob", "ghost"} }
    \cup { [kind |-> "access", sub |-> "alice", expired |-> TRUE],
           [kind |-> "refresh", sub |-> "alice", expired |-> FALSE],
           [kind |-> "access", sub |-> "", expired |-> FALSE],
           [kind |-> "garbage", sub |-> "", expired |-> FALSE],
           [kind |-> "none", sub |-> "", expired |-> FALSE] }

Denied(code, detail) == [status |-> code, detail |-> detail, user |-> 0]

\* SELECT * FROM users WHERE username = %s AND is_active = true
ActiveUsersNamed(username) == {u \in users : u.username = username /\ u.is_active}

\* a dependency that does not look at the type of the token
get_current_user_any_type(cred) ==
    CASE cred.kind = "none" -> {Denied(403, "Not authenticated")}
      [] cred.kind = "garbage" ->
           {Denied(401, "Could not validate credentials"),
            Denied(500, "Internal Server Error")}
      [] cred.expired -> {Denied(401, "Token has expired")}
      [] cred.sub = "" -> {Denied(401, "Could not validate credentials")}
      [] ActiveUsersNamed(cred.sub) = {} -> {Denied(401, "User not found")}
      [] OTHER -> {[status |-> 200, detail |-> "", user |-> u.id] :
                      u \in ActiveUsersNamed(cred.sub)}

\* Depends(get_current_user), lines 315-343, with HTTPBearer and decode_token:
\* the set of outcomes.  For a token that cannot be verified the except clause
\* names jwt.JWTError, which the imported jwt module may not have: the answer
\* is 401 if it has it, 500 if evaluating the name raises AttributeError.
get_current_user(cred) ==
    CASE cred.kind = "none" -> {Denied(403, "Not authenticated")}
      [] cred.kind = "garbage" ->
           {Denied(401, "Could not validate credentials"),
            Denied(500, "Internal Server Error")}
      [] cred.expired -> {Denied(401, "Token has expired")}
      [] cred.kind # "access" -> {Denied(401, "Invalid token type")}
      [] cred.sub = "" -> {Denied(401, "Could not validate credentials")}
      [] ActiveUsersNamed(cred.sub) = {} -> {Denied(401, "User not found")}
      [] OTHER -> {[status |-> 200, detail |-> "", user |-> u.id] :
                      u \in ActiveUsersNamed(cred.sub)}

\* the answer to a request that was refused before the endpoint ran
Refused(endpoint, auth, id) ==
    [status |-> auth.status, detail |-> auth.detail, endpoint |-> endpoint,
     user |-> 0, id |-> id]

Answer(code, detail, endpoint, user, id) ==
    [status |-> code, detail |-> detail, endpoint |-> endpoint, user |-> user, id |-> id]

\* a DELETE that looks at the id only
DeleteWhereIdOnly(row, id, user_id) == row.id = id

\* WHERE id = %s AND user_id = %s
DeleteWhere(row, id, user_id) == row.id = id /\ row.user_id = user_id

\* the rows the DELETE statement removes from table
Deleted(table, id, user_id) == {row \in table : DeleteWhere(row, id, user_id)}

notHistory ==
    <<MCP_AVAILABLE, pc, op, query, max_results, prompt, kwargs, session, tools,
      selected, result, ret, raised, path, transport, log, live, reqs, image_request,
      users, users_seq, regs>>

InitHistory ==
    /\ MCP_AVAILABLE = TRUE
    /\ ProcessIdle
    /\ reqs = <<>>
    /\ search_history = {} /\ image_history = {}
    /\ search_seq = 0 /\ image_seq = 0
    /\ response = Answer(0, "", "", 0, 0)
    /\ credentials = NoCredentials
    /\ image_request = NoImageRequest
    /\ users = Users /\ users_seq = Cardinality(Users)
    /\ regs = <<>>

\* POST /search (lines 683-724): the row is inserted when save_result is set
SearchInformation(cred, auth, save_result) ==
    /\ auth \in get_current_user(cred)
    /\ credentials' = cred
    /\ search_seq < MaxSearchRows
    /\ IF auth.status # 200
       THEN /\ response' = Refused("search", auth, 0)
            /\ UNCHANGED <<search_history, search_seq>>
       ELSE IF save_result
       THEN /\ search_seq' = search_seq + 1
            /\ search_history' =
                   search_history \cup {[id |-> search_seq + 1, user_id |-> auth.user]}
            /\ response' = Answer(200, "", "search", auth.user, search_seq + 1)
       ELSE /\ response' = Answer(200, "", "search", auth.user, 0)
            /\ UNCHANGED <<search_history, search_seq>>
    /\ UNCHANGED <<image_history, image_seq, notHistory>>

\* POST /image (lines 727-769) in one step; valid: the generation returned
\* and ImageResult accepted what it returned (line 742)
GenerateImage(cred, auth, save_result, valid) ==
    /\ auth \in get_current_user(cred)
    /\ credentials' = cred
    /\ image_seq < MaxImageRows
    /\ IF auth.status # 200
       THEN /\ response' = Refused("image", auth, 0)
            /\ UNCHANGED <<image_history, image_seq>>
       ELSE IF ~valid
       THEN /\ response' = Answer(500, "Internal Server Error", "image", auth.user, 0)
            /\ UNCHANGED <<image_history, image_seq>>
       ELSE IF save_result
       THEN /\ image_seq' = image_seq + 1
            /\ image_history' =
                   image_history \cup {[id |-> image_seq + 1, user_id |-> auth.user]}
            /\ response' = Answer(200, "", "image", auth.user, image_seq + 1)
       ELSE /\ response' = Answer(200, "", "image", auth.user, 0)
            /\ UNCHANGED <<image_history, image_seq>>
    /\ UNCHANGED <<search_history, search_seq, notHistory>>

\* DELETE /dashboard/search/{search_id} (lines 865-878): rowcount = 0 raises
\* the 404 inside get_db_connection, which rolls back; otherwise commit
delete_search(cred, auth, search_id) ==
    /\ auth \in get_current_user(cred)
    /\ credentials' = cred
    /\ IF auth.status # 200
       THEN /\ response' = Refused("delete_search", auth, search_id)
            /\ UNCHANGED search_history
       ELSE IF Deleted(search_history, search_id, auth.user) = {}
       THEN /\ response' = Answer(404, "Search entry not found", "delete_search",
                                  auth.user, search_id)
            /\ UNCHANGED search_history
       ELSE /\ search_history' =
                   search_history \ Deleted(search_history, search_id, auth.user)
            /\ response' = Answer(200, "Search entry deleted successfully",
                                  "delete_search", auth.user, search_id)
    /\ UNCHANGED <<search_seq, image_history, image_seq, notHistory>>

\* DELETE /dashboard/image/{image_id} (lines 880-893)
delete_image(cred, auth, image_id) ==
    /\ auth \in get_current_user(cred)
    /\ credentials' = cred
    /\ IF auth.status # 200
       THEN /\ response' = Refused("delete_image", auth, image_id)
            /\ UNCHANGED image_history
       ELSE IF Deleted(image_history, image_id, auth.user) = {}
       THEN /\ response' = Answer(404, "Image entry not found", "delete_image",
                                  auth.user, image_id)
            /\ UNCHANGED image_history
       ELSE /\ image_history' =
                   image_history \ Deleted(image_history, image_id, auth.user)
            /\ response' = Answer(200, "Image entry deleted successfully",
                                  "delete_image", auth.user, image_id)
    /\ UNCHANGED <<image_seq, search_history, search_seq, notHistory>>

\* Depends(get_admin_user), lines 345-351: the outcome of get_current_user,
\* refused with 403 when the user is no administrator
get_admin_user(auth) ==
    IF auth.status = 200 /\ ~\E u \in users : u.id = auth.user /\ u.role = "admin"
    THEN [status |-> 403, detail |-> "Admin access required", user |-> auth.user]
    ELSE auth

\* GET /auth/profile (lines 669-680)
get_profile(cred, auth) ==
    /\ auth \in get_current_user(cred)
    /\ credentials' = cred
    /\ response' = IF auth.status # 200 THEN Refused("profile", auth, 0)
                   ELSE Answer(200, "", "profile", auth.user, 0)
    /\ UNCHANGED <<search_history, search_seq, image_history, image_seq, notHistory>>

\* GET /admin/users (lines 896-906)
list_all_users(cred, auth) ==
    /\ auth \in get_current_user(cred)
    /\ credentials' = cred
    /\ response' = IF auth.status # 200 THEN Refused("admin_users", auth, 0)
                   ELSE Answer(get_admin_user(auth).status, get_admin_user(auth).detail,
                               "admin_users", auth.user, 0)
    /\ UNCHANGED <<search_history, search_seq, image_history, image_seq, notHistory>>

NextHistory ==
    \/ \E cred \in Credentials, save_result \in BOOLEAN :
           \E auth \in get_current_user(cred) : SearchInformation(cred, auth, save_result)
    \/ \E cred \in Credentials, save_result \in BOOLEAN, valid \in BOOLEAN :
           \E auth \in get_current_user(cred) :
               GenerateImage(cred, auth, save_result, valid)
    \/ \E cred \in Credentials, id \in 1..(MaxSearchRows + 1) :
           \E auth \in get_current_user(cred) : delete_search(cred, auth, id)
    \/ \E cred \in Credentials, id \in 1..(MaxImageRows + 1) :
           \E auth \in get_current_user(cred) : delete_image(cred, auth, id)
    \/ \E cred \in Credentials :
           \E auth \in get_current_user(cred) : get_profile(cred, auth)
    \/ \E cred \in Credentials :
           \E auth \in get_current_user(cred) : list_all_users(cred, auth)

SpecHistory == InitHistory /\ [][NextHistory]_vars

\* the request just answered is the delete endpoint of the table, by the owner
\* of row, naming row
C20_ByOwner(row, endpoint) ==
    /\ response'.endpoint = endpoint
    /\ response'.status = 200
    /\ response'.user = row.user_id
    /\ response'.id = row.id

\* the request just answered is a delete by an authenticated user that names
\* no row of table owned by that user
C20_NamesNoOwnRow(table, endpoint) ==
    /\ response' # response
    /\ response'.endpoint = endpoint
    /\ response'.user # 0
    /\ ~\E row \in table : row.id = response'.id /\ row.user_id = response'.user

C20_Step ==
    /\ \A row \in search_history \ search_history' : C20_ByOwner(row, "delete_search")
    /\ \A row \in image_history \ image_history' : C20_ByOwner(row, "delete_image")
    /\ (C20_NamesNoOwnRow(search_history, "delete_search")
            \/ C20_NamesNoOwnRow(image_history, "delete_image")) =>
           /\ response'.status = 404
           /\ UNCHANGED <<search_history, image_history>>
    /\ response'.status = 404 => UNCHANGED <<search_history, image_history>>

\* C20: deletion of history is scoped by owner: a search_history or
\* image_history row is removed only by a delete_search, resp. delete_image,
\* request authenticated as the user who owns it; a delete naming a row that
\* does not exist or is owned by another user answers 404 and leaves both
\* tables unchanged.
C20_OwnerScoped == [][C20_Step]_vars

\* alice named a search row that admin owns: 404, and the row is still there
C20_Witness ==
    /\ response.endpoint = "delete_search" /\ response.status = 404
    /\ response.user = 2
    /\ \E row \in search_history : row.id = response.id /\ row.user_id = 1

\* the rows of users with is_active = true that the subject names
C21_Subjects(cred) == {u \in users : u.username = cred.sub /\ u.is_active}

\* the credential is a token this server signed, unexpired, of type access,
\* with a subject that names a row of users with is_active = true
C21_ValidAccess(cred) ==
    /\ cred.kind = "access"
    /\ ~cred.expired
    /\ cred.sub # ""
    /\ C21_Subjects(cred) # {}

\* the body of a protected endpoint ran for the last request: it answered
\* itself (200, or the 404 of the delete endpoints), or get_admin_user refused
\* the authenticated user
C21_Served == response.status \in {200, 404} \/ response.user # 0

\* C21: only a valid access credential authenticates a request: on every
\* protected route a user is authenticated, and the endpoint runs, only if the
\* token verifies, is not expired, has type access, carries a subject and the
\* subject names an existing user with is_active = true, and the user is that
\* one; a refresh token, an expired or invalid token, no token, and a token of
\* a deactivated or unknown user are all refused (401, 403 or 500) with no
\* authenticated user.
C21_OnlyValidAccess ==
    /\ C21_Served =>
           /\ C21_ValidAccess(credentials)
           /\ \E u \in C21_Subjects(credentials) : u.id = response.user
    /\ ~C21_ValidAccess(credentials) /\ response.endpoint # "" =>
           /\ response.user = 0
           /\ response.status \in {401, 403, 500}

\* a refresh token of the active user alice was presented to delete_search
\* while a row of hers exists: refused with 401 "Invalid token type"
C21_Witness ==
    /\ credentials = [kind |-> "refresh", sub |-> "alice", expired |-> FALSE]
    /\ response = Answer(401, "Invalid token type", "delete_search", 0, 1)
    /\ \E row \in search_history : row.id = 1 /\ row.user_id = 2

(***************************************************************************)
(* Registration (lines 603-635) against the users table (lines 106-118),   *)
(* by requests whose statements interleave: each request has its own       *)
(* connection and transaction (lines 86-102).  A SELECT sees the committed *)
(* rows; an INSERT checks the UNIQUE constraints on username and email     *)
(* against the committed rows and waits for a transaction that has         *)
(* inserted a conflicting row and not ended yet.                           *)
(*   users      the committed rows                                         *)
(*   users_seq  the last value of the SERIAL id                            *)
(*   regs       per request: pc, the username and email of user_data, the  *)
(*              id of the row it inserted (0 if none), and its answer:     *)
(*              status, detail and the tokens returned                     *)
(***************************************************************************)
RegUsernames == {"alice", "carol", "dave"}

RegEmails == {"alice@x", "carol@x"}

IdleRegister ==
    [pc |-> "idle", username |-> "", email |-> "", id |-> 0, status |-> 0,
     detail |-> "", tokens |-> <<>>]

\* everything but users, users_seq and regs
notAccounts ==
    <<MCP_AVAILABLE, pc, op, query, max_results, prompt, kwargs, session, tools,
      selected, result, ret, raised, path, transport, log, live, reqs, search_history,
      image_history, search_seq, image_seq, response, credentials, image_request>>

InitRegister ==
    /\ MCP_AVAILABLE = TRUE
    /\ ProcessIdle
    /\ reqs = <<>>
    /\ search_history = {} /\ image_history = {}
    /\ search_seq = 0 /\ image_seq = 0
    /\ response = Answer(0, "", "", 0, 0)
    /\ credentials = NoCredentials
    /\ image_request = NoImageRequest
    /\ users = Users /\ users_seq = Cardinality(Users)
    /\ regs = [i \in 1..NumRequests |-> IdleRegister]

\* a users table without the UNIQUE constraints
NoUniqueConstraint(row, table) == {}

\* username VARCHAR(50) UNIQUE, email VARCHAR(255) UNIQUE: the rows of table
\* that forbid the insertion of row
UniqueConflicts(row, table) ==
    {u \in table : u.username = row.username \/ u.email = row.email}

\* the rows other transactions have inserted and not committed
Uncommitted(rs, i) ==
    {[username |-> rs[j].username, email |-> rs[j].email] :
         j \in {k \in DOMAIN rs : k # i /\ rs[k].pc = "commit"}}

\* create_access_token and create_refresh_token for the subject (lines 627-628)
TokensFor(username) ==
    <<[kind |-> "access", sub |-> username, expired |-> FALSE],
      [kind |-> "refresh", sub |-> username, expired |-> FALSE]>>

\* the request ends with this answer; an exception has rolled back what the
\* transaction did (line 98)
RegAnswered(rs, i, code, detail, tokens) ==
    [rs EXCEPT ![i] = [pc |-> "done", username |-> rs[i].username,
                       email |-> rs[i].email, id |-> rs[i].id, status |-> code,
                       detail |-> detail, tokens |-> tokens]]

RegAt(rs, i, where, id) ==
    [rs EXCEPT ![i] = [pc |-> where, username |-> rs[i].username,
                       email |-> rs[i].email, id |-> id, status |-> 0,
                       detail |-> "", tokens |-> <<>>]]

\* POST /auth/register arrives with user_data
register(i, username, email) ==
    /\ regs[i].pc = "idle"
    /\ regs' = [regs EXCEPT ![i] = [pc |-> "check_username", username |-> username,
                                    email |-> email, id |-> 0, status |-> 0,
                                    detail |-> "", tokens |-> <<>>]]
    /\ UNCHANGED <<users, users_seq, notAccounts>>

\* lines 608-610
RegCheckUsername(i) ==
    /\ regs[i].pc = "check_username"
    /\ regs' = IF \E u \in users : u.username = regs[i].username
               THEN RegAnswered(regs, i, 400, "Username already exists", <<>>)
               ELSE RegAt(regs, i, "check_email", 0)
    /\ UNCHANGED <<users, users_seq, notAccounts>>

\* lines 613-615
RegCheckEmail(i) ==
    /\ regs[i].pc = "check_email"
    /\ regs' = IF \E u \in users : u.email = regs[i].email
               THEN RegAnswered(regs, i, 400, "Email already registered", <<>>)
               ELSE RegAt(regs, i, "insert", 0)
    /\ UNCHANGED <<users, users_seq, notAccounts>>

\* lines 618-622: the INSERT takes the next id, waits while another
\* transaction holds an uncommitted conflicting row, and raises
\* UniqueViolation, which nothing handles, when a committed row conflicts
RegInsert(i) ==
    /\ regs[i].pc = "insert"
    /\ UniqueConflicts(regs[i], Uncommitted(regs, i)) = {}
    /\ users_seq' = users_seq + 1
    /\ regs' = IF UniqueConflicts(regs[i], users) # {}
               THEN RegAnswered(regs, i, 500, "Internal Server Error", <<>>)
               ELSE RegAt(regs, i, "commit", users_seq + 1)
    /\ UNCHANGED <<users, notAccounts>>

\* lines 624-635: conn.commit(), then the tokens are made and returned
RegCommit(i) ==
    /\ regs[i].pc = "commit"
    /\ users' = users \cup {[id |-> regs[i].id, username |-> regs[i].username,
                             email |-> regs[i].email, role |-> "basic",
                             is_active |-> TRUE]}
    /\ regs' = RegAnswered(regs, i, 200, "", TokensFor(regs[i].username))
    /\ UNCHANGED <<users_seq, notAccounts>>

NextRegister ==
    \/ \E i \in 1..NumRequests, username \in RegUsernames, email \in RegEmails :
           register(i, username, email)
    \/ \E i \in 1..NumRequests : RegCheckUsername(i)
    \/ \E i \in 1..NumRequests : RegCheckEmail(i)
    \/ \E i \in 1..NumRequests : RegInsert(i)
    \/ \E i \in 1..NumRequests : RegCommit(i)

SpecRegister == InitRegister /\ [][NextRegister]_vars

\* requests i and j ask for the same username or the same email
C22_Conflicting(i, j) ==
    /\ i # j
    /\ regs[i].pc # "idle" /\ regs[j].pc # "idle"
    /\ regs[i].username = regs[j].username \/ regs[i].email = regs[j].email

\* C22: usernames and emails stay unique under concurrent registration: in
\* every interleaving of the statements of register requests the users table
\* never holds two rows with the same username or the same email, and of two
\* requests with the same username or the same email at most one receives
\* tokens.
C22_Unique ==
    /\ \A a \in users, b \in users :
           (a.username = b.username \/ a.email = b.email) => a = b
    /\ \A i \in DOMAIN regs, j \in DOMAIN regs :
           C22_Conflicting(i, j) => regs[i].tokens = <<>> \/ regs[j].tokens = <<>>

\* two requests for the username carol both passed the existence checks before
\* either inserted: the first has its row and its tokens, the INSERT of the
\* second raised UniqueViolation
C22_Witness ==
    /\ Len(regs) >= 2
    /\ regs[1].username = "carol" /\ regs[2].username = "carol"
    /\ regs[1].status = 200 /\ regs[1].tokens = TokensFor("carol")
    /\ regs[2].status = 500 /\ regs[2].tokens = <<>>
    /\ Cardinality({u \in users : u.username = "carol"}) = 1

(***************************************************************************)
(* POST /image as a whole (lines 727-769): the request is authenticated,   *)
(* generate_image_with_mcp runs step by step as in Spec, then the endpoint *)
(* builds the ImageResult, inserts the row if save_result is set and       *)
(* answers.  A row of image_history here is [id, user_id, image_url,       *)
(* image_data], the last two as Python values (PyNone for NULL).           *)
(***************************************************************************)
\* what call_tool of the image tool returns
EndpointEnvelopes ==
    { Envelope("list", <<>>, "", 0),
      Envelope("list", <<TextItem("http://example.com/a.png")>>, "", 0),
      Envelope("list", <<TextItem("[]")>>, "", 0),
      Envelope("list", <<TextItem(KeyText("url", "[1]"))>>, "", 0),
      Envelope("list", <<TextItem(KeyText("url", "7"))>>, "", 0),
      Envelope("list", <<TextItem("{\"imageData\":\"d1\",\"base64\":\"d2\",\"url\":\"u\"}")>>,
               "", 0) }

\* kwargs as the endpoint builds it: width, height and steps (lines 733-737)
EndpointKwargs == {kw \in KwargsInputs : Len(kw.ks) = 3}

InitImage ==
    /\ MCP_AVAILABLE \in BOOLEAN
    /\ ProcessIdle
    /\ reqs = <<>>
    /\ search_history = {} /\ image_history = {}
    /\ search_seq = 0 /\ image_seq = 0
    /\ response = Answer(0, "", "", 0, 0)
    /\ credentials = NoCredentials
    /\ image_request = NoImageRequest
    /\ users = Users /\ users_seq = Cardinality(Users)
    /\ regs = <<>>

\* image_url: Optional[str] and image_data: Optional[str] of ImageResult
\* (lines 255-256) accept None and str, reject lists and dicts, and take an int
\* or a bool only where the installed pydantic coerces numbers to str
OptionalStr(v, coerces) ==
    v.t \in {"none", "str"} \/ (coerces /\ v.t \in {"int", "bool"})

\* ImageResult(...) at line 742 does not raise ValidationError
ImageResultValid(res, coerces) ==
    /\ OptionalStr(DictGet(res, "image_url"), coerces)
    /\ OptionalStr(DictGet(res, "image_data"), coerces)

\* the row of the INSERT at lines 754-764
ImageRow(id, user_id, res) ==
    [id |-> id, user_id |-> user_id, image_url |-> DictGet(res, "image_url"),
     image_data |-> DictGet(res, "image_data")]

\* the request arrives: Depends(get_current_user), then kwargs is built and
\* generate_image_with_mcp is called (lines 727-739, 496-500)
generate_image(cred, auth, p, kw, save_result) ==
    /\ pc = "idle"
    /\ image_seq < MaxImageRows
    /\ auth \in get_current_user(cred)
    /\ credentials' = cred
    /\ IF auth.status # 200
       THEN /\ response' = Refused("image", auth, 0)
            /\ UNCHANGED <<pc, op, prompt, kwargs, image_request>>
       ELSE /\ response' = Answer(0, "", "image", auth.user, 0)
            /\ image_request' = [save_result |-> save_result, current_user |-> auth.user]
            /\ op' = "image" /\ prompt' = p /\ kwargs' = kw
            /\ pc' = IF MCP_AVAILABLE THEN "open" ELSE "mock_sleep"
    /\ UNCHANGED <<MCP_AVAILABLE, query, max_results, session, tools, selected, result,
                   ret, raised, path, transport, log, live, reqs, search_history,
                   image_history, search_seq, image_seq, users, users_seq, regs>>

\* the locals of the request are gone
EndpointLeft ==
    /\ pc' = "idle"
    /\ op' = "" /\ prompt' = ""
    /\ kwargs' = PyDict(<<>>, <<>>)
    /\ session' = "none"
    /\ tools' = <<>>
    /\ selected' = NotFound
    /\ result' = NoEnvelope
    /\ ret' = PyNone
    /\ raised' = NoExc
    /\ path' = ""
    /\ transport' = "none"
    /\ log' = <<>>
    /\ image_request' = NoImageRequest

\* generate_image_with_mcp has returned result (ret): lines 740-769.  An
\* exception it let through, or the ValidationError of ImageResult, is
\* answered with 500 before the INSERT is reached
generate_image_return(coerces) ==
    /\ pc = "done" /\ op = "image"
    /\ IF raised # NoExc \/ ~ImageResultValid(ret, coerces)
       THEN /\ response' = Answer(500, "Internal Server Error", "image",
                                  image_request.current_user, 0)
            /\ UNCHANGED <<image_history, image_seq>>
       ELSE IF image_request.save_result
       THEN /\ image_seq' = image_seq + 1
            /\ image_history' =
                   image_history
                       \cup {ImageRow(image_seq + 1, image_request.current_user, ret)}
            /\ response' = Answer(200, "", "image", image_request.current_user,
                                  image_seq + 1)
       ELSE /\ response' = Answer(200, "", "image", image_request.current_user, 0)
            /\ UNCHANGED <<image_history, image_seq>>
    /\ EndpointLeft
    /\ UNCHANGED <<MCP_AVAILABLE, query, max_results, live, reqs, search_history,
                   search_seq, credentials, users, users_seq, regs>>

NextImage ==
    \/ \E cred \in Credentials, p \in Prompts, kw \in EndpointKwargs,
          save_result \in BOOLEAN :
           \E auth \in get_current_user(cred) :
               generate_image(cred, auth, p, kw, save_result)
    \/ \E h \in 0..Min(MaxHash, HashModulus - 1) : MockImageDone(h)
    \/ OpenSession
    \/ \E e \in ProviderFailures : OpenFails(e)
    \/ \E e \in ProviderFailures : SessionEnterFails(e)
    \/ Initialize
    \/ \E e \in ProviderFailures : InitializeFails(e)
    \/ \E ts \in ConcToolLists : ListTools(ts)
    \/ \E e \in ProviderFailures : ListToolsFails(e)
    \/ \E r \in EndpointEnvelopes : CallTool(r)
    \/ \E e \in ProviderFailures : CallToolFails(e)
    \/ \E coerces \in BOOLEAN : generate_image_return(coerces)

SpecImage == InitImage /\ [][NextImage]_vars

\* the step is the end of an /image request of an authenticated user
C23_Returns == pc = "done" /\ pc' = "idle" /\ op = "image"

\* exactly one row was inserted, for the user of the request, and the answer
\* gives its id
C23_OneRowInserted ==
    \E row \in image_history' \ image_history :
        /\ image_history' = image_history \cup {row}
        /\ row.user_id = image_request.current_user
        /\ response'.id = row.id /\ row.id # 0

\* the value generate_image_with_mcp returned is error-shaped
C23_ErrorShaped == HasKey(ret, "error")

C23_Step ==
    C23_Returns =>
        IF image_request.save_result
        THEN /\ C23_OneRowInserted
             /\ C23_ErrorShaped =>
                    \A row \in image_history' \ image_history :
                        row.image_url = PyNone /\ row.image_data = PyNone
        ELSE image_history' = image_history /\ response'.id = 0

\* C23 as claimed: the /image endpoint persists independently of the
\* generation outcome: every request with save_result = true inserts exactly
\* one image_history row and returns its id, also when the generation returned
\* an error-shaped result (the row then has image_url and image_data null);
\* every request with save_result = false inserts no row and returns no id.
C23_Claim == [][C23_Step]_vars

====
